---- MODULE Spec2Model ----
(***************************************************************************)
(* MapStack backend: roadmap versioning (services/roadmap.py) and document *)
(* revision management (services/document.py), modelled as state machines  *)
(* over the committed database tables and the content store.               *)
(***************************************************************************)
EXTENDS Integers, Sequences, FiniteSets, TLC

VARIABLES
    roadmaps,   \* table roadmaps: id -> row
    nodes,      \* table roadmap_nodes: id -> row
    edges,      \* table roadmap_edges: id -> row
    last,       \* response of the most recent publish / new-version request
    inflight,   \* requests suspended at an await, between their check and their commit
    documents,  \* table documents as written by the session: id -> row
    revisions,  \* table document_revisions as written by the session, in created_at order
    blobs,      \* content store: storage key -> content
    docpc,      \* the document request suspended between its flush and its save
    doclast,    \* outcome of the most recent document request
    links,      \* table node_document_links: id -> row
    call        \* the utility call made most recently and what it returned

vars == <<roadmaps, nodes, edges, last, inflight, documents, revisions, blobs, docpc,
          doclast, links, call>>

(***************************************************************************)
(* Bounds of the model.                                                    *)
(***************************************************************************)
MaxRoadmaps == 2
MaxNodes == 2
MaxEdges == 2
MaxDocs == 2
MaxRevs == 4

(***************************************************************************)
(* Version texts are sequences of characters.                              *)
(***************************************************************************)
Digits == {"0", "1", "2", "3", "4", "5", "6", "7", "8", "9"}

DigitVal(c) ==
    CASE c = "0" -> 0 [] c = "1" -> 1 [] c = "2" -> 2 [] c = "3" -> 3
      [] c = "4" -> 4 [] c = "5" -> 5 [] c = "6" -> 6 [] c = "7" -> 7
      [] c = "8" -> 8 [] c = "9" -> 9

\* str.split("."): the parts between the dots, empty parts included.
RECURSIVE SplitDots(_)
SplitDots(s) ==
    IF \A i \in 1..Len(s) : s[i] # "."
    THEN <<s>>
    ELSE LET k == CHOOSE i \in 1..Len(s) :
                      s[i] = "." /\ \A j \in 1..(i - 1) : s[j] # "."
         IN  <<SubSeq(s, 1, k - 1)>> \o SplitDots(SubSeq(s, k + 1, Len(s)))

IsDigits(p) == Len(p) > 0 /\ \A i \in 1..Len(p) : p[i] \in Digits

RECURSIVE DigitsVal(_)
DigitsVal(p) ==
    IF Len(p) = 0 THEN 0
    ELSE 10 * DigitsVal(SubSeq(p, 1, Len(p) - 1)) + DigitVal(p[Len(p)])

\* int(part): an optional sign followed by decimal digits.
IsIntText(p) ==
    \/ IsDigits(p)
    \/ Len(p) > 1 /\ p[1] \in {"+", "-"} /\ IsDigits(Tail(p))

IntVal(p) ==
    IF p[1] = "-" THEN 0 - DigitsVal(Tail(p))
    ELSE IF p[1] = "+" THEN DigitsVal(Tail(p))
    ELSE DigitsVal(p)

\* VersionUtility.parse_version succeeds.
is_valid_version(v) ==
    LET parts == SplitDots(v)
    IN  Len(parts) = 3 /\ \A i \in 1..3 : IsIntText(parts[i])

\* VersionUtility.parse_version, for a text it accepts.
parse_version(v) ==
    LET parts == SplitDots(v)
    IN  <<IntVal(parts[1]), IntVal(parts[2]), IntVal(parts[3])>>

\* A compare_versions that stops at the minor number.
compare_versions_no_patch(version1, version2) ==
    LET a == parse_version(version1)
        b == parse_version(version2)
    IN  IF a[1] < b[1] THEN 0 - 1
        ELSE IF a[1] > b[1] THEN 1
        ELSE IF a[2] < b[2] THEN 0 - 1
        ELSE IF a[2] > b[2] THEN 1
        ELSE 0

\* VersionUtility.compare_versions, for two texts parse_version accepts.
compare_versions(version1, version2) ==
    LET a == parse_version(version1)
        b == parse_version(version2)
    IN  IF a[1] < b[1] THEN 0 - 1
        ELSE IF a[1] > b[1] THEN 1
        ELSE IF a[2] < b[2] THEN 0 - 1
        ELSE IF a[2] > b[2] THEN 1
        ELSE IF a[3] < b[3] THEN 0 - 1
        ELSE IF a[3] > b[3] THEN 1
        ELSE 0

(***************************************************************************)
(* packaging.version.parse, as clone_roadmap_for_new_version calls it, on  *)
(* texts over digits, "." and "x": such a text is a PEP 440 version        *)
(* exactly when it is a release segment N(.N)*; versions are ordered by    *)
(* their release tuples with trailing zeros dropped.                       *)
(***************************************************************************)
pep440_valid(v) ==
    LET parts == SplitDots(v)
    IN  \A i \in 1..Len(parts) : IsDigits(parts[i])

RECURSIVE DropTrailingZeros(_)
DropTrailingZeros(t) ==
    IF Len(t) > 0 /\ t[Len(t)] = 0
    THEN DropTrailingZeros(SubSeq(t, 1, Len(t) - 1))
    ELSE t

pep440_key(v) ==
    LET parts == SplitDots(v)
    IN  DropTrailingZeros([i \in 1..Len(parts) |-> DigitsVal(parts[i])])

\* Python tuple comparison a <= b.
RECURSIVE TupleLeq(_, _)
TupleLeq(a, b) ==
    IF Len(a) = 0 THEN TRUE
    ELSE IF Len(b) = 0 THEN FALSE
    ELSE IF a[1] < b[1] THEN TRUE
    ELSE IF a[1] > b[1] THEN FALSE
    ELSE TupleLeq(Tail(a), Tail(b))

pep440_leq(a, b) == TupleLeq(pep440_key(a), pep440_key(b))

V100 == <<"1", ".", "0", ".", "0">>
V200 == <<"2", ".", "0", ".", "0">>
V20 == <<"2", ".", "0">>
VBad == <<"x">>

(***************************************************************************)
(* Inputs of the requests.                                                 *)
(***************************************************************************)
Themes == {"t1", "t2"}   \* rows of table themes; "t0" is the id of no theme
NodeHandles == {"n1", "n2"}
EdgeHandles == {"e1"}
CloneLabels == {V100, V200, V20, VBad}

\* RoadmapUpdate.dict(exclude_unset=True): the fields the request sets.
UpdatePayloads ==
    { [theme_id |-> "t2", title |-> "B", description |-> "dB"],
      [is_published |-> TRUE],
      [is_published |-> FALSE],
      [is_latest |-> FALSE],
      [is_latest |-> TRUE],
      [is_published |-> TRUE, is_latest |-> FALSE] }

Put(f, k, v) == [x \in (DOMAIN f) \cup {k} |-> IF x = k THEN v ELSE f[x]]
Drop(f, ks) == [x \in (DOMAIN f) \ ks |-> f[x]]
Empty == [x \in {} |-> 0]

\* Column default uuid.uuid4: an id no row of the table has.
FreshId(table) ==
    CHOOSE i \in 1..(Cardinality(DOMAIN table) + 1) :
        /\ i \notin DOMAIN table
        /\ \A j \in 1..(i - 1) : j \in DOMAIN table

NodesOf(ns, r) == {n \in DOMAIN ns : ns[n].roadmap_id = r}
EdgesOf(es, r) == {e \in DOMAIN es : es[e].roadmap_id = r}

\* UniqueConstraint('theme_id', 'version') with row r holding (t, v).
RoadmapUniqueViolated(rms, r, t, v) ==
    \E o \in DOMAIN rms : o # r /\ rms[o].theme_id = t /\ rms[o].version = v

NoResponse == [op |-> "none", res |-> "none", id |-> 0, new |-> 0, label |-> <<>>]
Untracked == [op |-> "other", res |-> "none", id |-> 0, new |-> 0, label |-> <<>>]
Response(op, res, id, new, label) ==
    [op |-> op, res |-> res, id |-> id, new |-> new, label |-> label]

\* No utility call has been made.
NoCall == [fn |-> "none"]

\* No document request is suspended.
Idle == [op |-> "idle"]

\* What a document request returned or raised.
NoDocResponse == [op |-> "none", res |-> "none", document_id |-> 0, version |-> <<>>]
DocResponse(op, res, d, v) == [op |-> op, res |-> res, document_id |-> d, version |-> v]

(***************************************************************************)
(* Roadmap requests, each one handler of services/roadmap.py run from its  *)
(* first statement to its return or exception.  State is the committed     *)
(* content of the tables.                                                  *)
(***************************************************************************)
\* RoadmapCreate payloads: (theme_id, title, description).  Roadmaps reach
\* theme "t2" through update_roadmap.
CreateInputs ==
    {<<"t1", "A", "dA">>, <<"t0", "A", "dA">>}

create_roadmap(t, title, description) ==
    IF t \notin Themes
    THEN [res |-> "ThemeNotFound", roadmaps |-> roadmaps]
    ELSE IF RoadmapUniqueViolated(roadmaps, 0, t, V100)
    THEN [res |-> "IntegrityError", roadmaps |-> roadmaps]
    ELSE [res |-> "ok",
          roadmaps |-> Put(roadmaps, FreshId(roadmaps),
                           [theme_id |-> t, version |-> V100, title |-> title,
                            description |-> description, is_published |-> FALSE,
                            is_latest |-> TRUE, published_at |-> "none"])]

CreateRoadmap(t, title, description) ==
    \E out \in {create_roadmap(t, title, description)} :
        /\ Cardinality(DOMAIN out.roadmaps) <= MaxRoadmaps
        /\ roadmaps' = out.roadmaps
        /\ last' = Untracked
        /\ UNCHANGED <<nodes, edges, inflight, documents, revisions, blobs, docpc,
                 doclast, links, call>>

\* Field order of RoadmapUpdate, the iteration order of roadmap_data.
UpdateFieldOrder ==
    <<"theme_id", "version", "title", "description",
      "is_published", "is_latest", "published_at">>

VersioningFields == {"is_published", "is_latest", "published_at"}

\* Mutation: the loop without its guard on the versioning fields.
RECURSIVE ApplyUpdate_unguarded(_, _, _)
ApplyUpdate_unguarded(row, upd, fields) ==
    IF fields = <<>> THEN row
    ELSE LET f == Head(fields)
         IN  IF f \in DOMAIN upd
             THEN ApplyUpdate_unguarded([row EXCEPT ![f] = upd[f]], upd, Tail(fields))
             ELSE ApplyUpdate_unguarded(row, upd, Tail(fields))

\* The setattr loop: the guard reads is_published as the loop has left it.
RECURSIVE ApplyUpdate(_, _, _)
ApplyUpdate(row, upd, fields) ==
    IF fields = <<>> THEN row
    ELSE LET f == Head(fields)
         IN  IF f \in DOMAIN upd /\ (f \notin VersioningFields \/ ~row.is_published)
             THEN ApplyUpdate([row EXCEPT ![f] = upd[f]], upd, Tail(fields))
             ELSE ApplyUpdate(row, upd, Tail(fields))

update_roadmap(r, upd) ==
    IF r \notin DOMAIN roadmaps
    THEN [res |-> "RoadmapNotFound", roadmaps |-> roadmaps]
    ELSE IF /\ roadmaps[r].is_published
            /\ "theme_id" \in DOMAIN upd
            /\ upd.theme_id # roadmaps[r].theme_id
    THEN [res |-> "PublishedRoadmapImmutable", roadmaps |-> roadmaps]
    ELSE LET row == ApplyUpdate(roadmaps[r], upd, UpdateFieldOrder)
         IN  IF RoadmapUniqueViolated(roadmaps, r, row.theme_id, row.version)
             THEN [res |-> "IntegrityError", roadmaps |-> roadmaps]
             ELSE [res |-> "ok", roadmaps |-> [roadmaps EXCEPT ![r] = row]]

UpdateRoadmap(r, upd) ==
    /\ roadmaps' = update_roadmap(r, upd).roadmaps
    /\ last' = Untracked
    /\ UNCHANGED <<nodes, edges, inflight, documents, revisions, blobs, docpc,
                 doclast, links, call>>

\* Mutation: the edge check also applied to a roadmap of one node.
publish_roadmap_edges_always(r) ==
    IF r \notin DOMAIN roadmaps
    THEN [res |-> "RoadmapNotFound", roadmaps |-> roadmaps]
    ELSE IF roadmaps[r].is_published
    THEN [res |-> "AlreadyPublished", roadmaps |-> roadmaps]
    ELSE LET node_count == Cardinality(NodesOf(nodes, r))
             edge_count == Cardinality(EdgesOf(edges, r))
         IN  IF node_count = 0
             THEN [res |-> "EmptyRoadmap", roadmaps |-> roadmaps]
             ELSE IF edge_count = 0
             THEN [res |-> "DisconnectedRoadmap", roadmaps |-> roadmaps]
             ELSE [res |-> "ok",
                   roadmaps |-> [roadmaps EXCEPT ![r].is_published = TRUE,
                                                 ![r].published_at = "now"]]

publish_roadmap(r) ==
    IF r \notin DOMAIN roadmaps
    THEN [res |-> "RoadmapNotFound", roadmaps |-> roadmaps]
    ELSE IF roadmaps[r].is_published
    THEN [res |-> "AlreadyPublished", roadmaps |-> roadmaps]
    ELSE LET node_count == Cardinality(NodesOf(nodes, r))
             edge_count == Cardinality(EdgesOf(edges, r))
         IN  IF node_count = 0
             THEN [res |-> "EmptyRoadmap", roadmaps |-> roadmaps]
             ELSE IF node_count > 1 /\ edge_count = 0
             THEN [res |-> "DisconnectedRoadmap", roadmaps |-> roadmaps]
             ELSE [res |-> "ok",
                   roadmaps |-> [roadmaps EXCEPT ![r].is_published = TRUE,
                                                 ![r].published_at = "now"]]

Publish(r) ==
    \E out \in {publish_roadmap(r)} :
        /\ roadmaps' = out.roadmaps
        /\ last' = Response("publish", out.res, r, 0, <<>>)
        /\ UNCHANGED <<nodes, edges, inflight, documents, revisions, blobs, docpc,
                 doclast, links, call>>

(***************************************************************************)
(* clone_roadmap_for_new_version.  The handler commits twice: the demotion *)
(* of the source, then the new roadmap with its nodes and edges.           *)
(***************************************************************************)
Min(S) == CHOOSE x \in S : \A y \in S : x <= y

\* The validation part; "ok" when the handler goes on to write.
clone_validate(rms, r, new_version) ==
    IF r \notin DOMAIN rms THEN "RoadmapNotFound"
    ELSE IF ~rms[r].is_published THEN "SourceNotPublished"
    ELSE IF ~pep440_valid(new_version) \/ ~pep440_valid(rms[r].version)
    THEN "InvalidVersion"
    ELSE IF pep440_leq(new_version, rms[r].version) THEN "VersionNotNewer"
    ELSE IF rms[r].theme_id \notin Themes THEN "ThemeNotFound"
    ELSE "ok"

\* Mutation: the source keeps its flag.
clone_demote_skipped(rms, r) == rms

\* original_roadmap.is_latest = False; await db.commit()
clone_demote(rms, r) == [rms EXCEPT ![r].is_latest = FALSE]

\* The node loop: one new row per source node, and the old id -> new id map.
RECURSIVE clone_nodes(_, _, _, _)
clone_nodes(todo, ns, new_r, node_id_map) ==
    IF todo = {} THEN [nodes |-> ns, node_id_map |-> node_id_map]
    ELSE LET o == Min(todo)
             n == FreshId(ns)
         IN  clone_nodes(todo \ {o},
                         Put(ns, n,
                             [roadmap_id |-> new_r,
                              handle |-> ns[o].handle,
                              node_type |-> ns[o].node_type,
                              title |-> ns[o].title,
                              description |-> ns[o].description,
                              position_x |-> ns[o].position_x,
                              position_y |-> ns[o].position_y,
                              meta_data |-> ns[o].meta_data,
                              is_required |-> ns[o].is_required]),
                         new_r,
                         Put(node_id_map, o, n))

\* Mutation: the copied edges keep the endpoints of the source's edges.
RECURSIVE clone_edges_unmapped(_, _, _, _)
clone_edges_unmapped(todo, es, new_r, node_id_map) ==
    IF todo = {} THEN es
    ELSE LET o == Min(todo)
         IN  clone_edges_unmapped(todo \ {o},
                                  Put(es, FreshId(es),
                                      [roadmap_id |-> new_r, handle |-> es[o].handle,
                                       source_node_id |-> es[o].source_node_id,
                                       target_node_id |-> es[o].target_node_id,
                                       edge_type |-> es[o].edge_type,
                                       source_handle |-> "none",
                                       target_handle |-> "none",
                                       meta_data |-> es[o].meta_data]),
                                  new_r,
                                  node_id_map)

\* The edge loop, endpoints rewritten through the map.  The new row is
\* built from roadmap_id, handle, the two endpoints, edge_type and meta_data;
\* source_handle and target_handle are not passed and the columns have no
\* default, so they are NULL ("none") in the copy.
RECURSIVE clone_edges(_, _, _, _)
clone_edges(todo, es, new_r, node_id_map) ==
    IF todo = {} THEN es
    ELSE LET o == Min(todo)
         IN  clone_edges(todo \ {o},
                         Put(es, FreshId(es),
                             [roadmap_id |-> new_r, handle |-> es[o].handle,
                              source_node_id |-> node_id_map[es[o].source_node_id],
                              target_node_id |-> node_id_map[es[o].target_node_id],
                              edge_type |-> es[o].edge_type,
                              source_handle |-> "none",
                              target_handle |-> "none",
                              meta_data |-> es[o].meta_data]),
                         new_r,
                         node_id_map)

\* The second transaction, run on the tables as the first commit left them.
clone_copy(rms, ns, es, r, new_version) ==
    LET new_r == FreshId(rms)
        copied == clone_nodes(NodesOf(ns, r), ns, new_r, Empty)
    IN  IF RoadmapUniqueViolated(rms, 0, rms[r].theme_id, new_version)
        THEN [res |-> "IntegrityError", new |-> 0,
              roadmaps |-> rms, nodes |-> ns, edges |-> es]
        ELSE IF \E e \in EdgesOf(es, r) :
                    \/ es[e].source_node_id \notin DOMAIN copied.node_id_map
                    \/ es[e].target_node_id \notin DOMAIN copied.node_id_map
        THEN [res |-> "KeyError", new |-> 0,
              roadmaps |-> rms, nodes |-> ns, edges |-> es]
        ELSE [res |-> "ok", new |-> new_r,
              roadmaps |-> Put(rms, new_r,
                               [theme_id |-> rms[r].theme_id,
                                version |-> new_version,
                                title |-> rms[r].title,
                                description |-> rms[r].description,
                                is_published |-> FALSE,
                                is_latest |-> TRUE,
                                published_at |-> "none"]),
              nodes |-> copied.nodes,
              edges |-> clone_edges(EdgesOf(es, r), es, new_r, copied.node_id_map)]

clone_roadmap_for_new_version(r, new_version) ==
    LET v == clone_validate(roadmaps, r, new_version)
    IN  IF v # "ok"
        THEN [res |-> v, new |-> 0,
              roadmaps |-> roadmaps, nodes |-> nodes, edges |-> edges]
        ELSE clone_copy(clone_demote(roadmaps, r), nodes, edges, r, new_version)

Fits(out) ==
    /\ Cardinality(DOMAIN out.roadmaps) <= MaxRoadmaps
    /\ Cardinality(DOMAIN out.nodes) <= MaxNodes
    /\ Cardinality(DOMAIN out.edges) <= MaxEdges

Clone(r, new_version) ==
    \E out \in {clone_roadmap_for_new_version(r, new_version)} :
        /\ Fits(out)
        /\ roadmaps' = out.roadmaps
        /\ nodes' = out.nodes
        /\ edges' = out.edges
        /\ last' = Response("clone", out.res, r, out.new, new_version)
        /\ UNCHANGED <<inflight, documents, revisions, blobs, docpc,
                 doclast, links, call>>

(***************************************************************************)
(* Node and edge requests.  None is "none" for a handle and 0 for an id.   *)
(***************************************************************************)
NodeIds == 1..MaxNodes
EdgeIds == 1..MaxEdges
RoadmapIds == 1..MaxRoadmaps

\* RoadmapNode(**node_data): the row a RoadmapNodeCreate payload with handle h
\* gives; the payload's other fields are fixed, none at its column default.
NodeRow(r, h) ==
    [roadmap_id |-> r, handle |-> h, node_type |-> "topic", title |-> "N",
     description |-> "dN", position_x |-> 100, position_y |-> 50,
     meta_data |-> "m", is_required |-> TRUE]

\* RoadmapEdge(**edge_data): the row a RoadmapEdgeCreate payload gives.
EdgeRow(r, h, s, t) ==
    [roadmap_id |-> r, handle |-> h, source_node_id |-> s, target_node_id |-> t,
     edge_type |-> "dependency", source_handle |-> "right",
     target_handle |-> "left", meta_data |-> "m"]

NodeHandleTaken(ns, r, h) == \E n \in NodesOf(ns, r) : ns[n].handle = h
EdgeHandleTaken(es, r, h) == \E e \in EdgesOf(es, r) : es[e].handle = h

\* The reads and checks of create_roadmap_node, up to the insert.
create_node_check(rms, ns, r, h) ==
    IF r \notin DOMAIN rms THEN "RoadmapNotFound"
    ELSE IF rms[r].is_published THEN "PublishedRoadmapImmutable"
    ELSE IF NodeHandleTaken(ns, r, h) THEN "DuplicateHandle"
    ELSE "ok"

create_roadmap_node(r, h) ==
    IF create_node_check(roadmaps, nodes, r, h) # "ok"
    THEN nodes
    ELSE Put(nodes, FreshId(nodes), NodeRow(r, h))

CreateNode(r, h) ==
    /\ nodes' = create_roadmap_node(r, h)
    /\ Cardinality(DOMAIN nodes') <= MaxNodes
    /\ last' = Untracked
    /\ UNCHANGED <<roadmaps, edges, inflight, documents, revisions, blobs, docpc,
                 doclast, links, call>>

RoadmapPublished(rms, r) == r \in DOMAIN rms /\ rms[r].is_published

\* update_roadmap_node without its handle check.
update_roadmap_node_unchecked(n, h) ==
    IF n \notin DOMAIN nodes THEN nodes
    ELSE IF RoadmapPublished(roadmaps, nodes[n].roadmap_id) THEN nodes
    ELSE IF h = "none" THEN nodes
    ELSE [nodes EXCEPT ![n].handle = h]

update_roadmap_node(n, h) ==
    IF n \notin DOMAIN nodes THEN nodes
    ELSE IF RoadmapPublished(roadmaps, nodes[n].roadmap_id) THEN nodes
    ELSE IF /\ h # "none"
            /\ h # nodes[n].handle
            /\ NodeHandleTaken(nodes, nodes[n].roadmap_id, h)
    THEN nodes
    ELSE IF h = "none" THEN nodes
    ELSE [nodes EXCEPT ![n].handle = h]

UpdateNode(n, h) ==
    /\ nodes' = update_roadmap_node(n, h)
    /\ last' = Untracked
    /\ UNCHANGED <<roadmaps, edges, inflight, documents, revisions, blobs, docpc,
                 doclast, links, call>>

EdgesAt(es, n) ==
    {e \in DOMAIN es : es[e].source_node_id = n \/ es[e].target_node_id = n}

delete_node_allowed(n) ==
    /\ n \in DOMAIN nodes
    /\ ~RoadmapPublished(roadmaps, nodes[n].roadmap_id)

\* db.delete(db_node) and commit; the edges at the node and the document
\* links of the node go with it (ForeignKey('roadmap_nodes.id',
\* ondelete='CASCADE')).
DeleteNode(n) ==
    /\ delete_node_allowed(n)
    /\ nodes' = Drop(nodes, {n})
    /\ edges' = Drop(edges, EdgesAt(edges, n))
    /\ links' = Drop(links, {l \in DOMAIN links : links[l].node_id = n})
    /\ last' = Untracked
    /\ UNCHANGED <<roadmaps, inflight, documents, revisions, blobs, docpc, doclast, call>>

\* The other outcome the ORM can produce for a node that has edges: the
\* flush first detaches the edges (source_node_id / target_node_id := NULL),
\* the columns are NOT NULL, the commit fails and nothing is deleted.  A
\* request for a missing node or a published roadmap's node is rejected and
\* changes nothing either.
DeleteNodeRejected(n) ==
    /\ \/ ~delete_node_allowed(n)
       \/ EdgesAt(edges, n) # {}
    /\ last' = Untracked
    /\ UNCHANGED <<roadmaps, nodes, edges, inflight, documents, revisions, blobs, docpc,
                 doclast, links, call>>

EndpointInRoadmap(ns, n, r) == n \in DOMAIN ns /\ ns[n].roadmap_id = r

create_roadmap_edge(r, h, s, t) ==
    IF r \notin DOMAIN roadmaps THEN edges
    ELSE IF roadmaps[r].is_published THEN edges
    ELSE IF ~EndpointInRoadmap(nodes, s, r) THEN edges
    ELSE IF ~EndpointInRoadmap(nodes, t, r) THEN edges
    ELSE IF EdgeHandleTaken(edges, r, h) THEN edges
    ELSE Put(edges, FreshId(edges), EdgeRow(r, h, s, t))

\* edge_data also carries the payload's "label" key.  The table has a label
\* column (alembic 001), the mapped class RoadmapEdge declares none, and the
\* declarative constructor raises TypeError for a key that is no attribute of
\* the class: after the checks the request either inserts the row or fails
\* there and writes nothing.
CreateEdge(r, h, s, t) ==
    /\ \/ edges' = create_roadmap_edge(r, h, s, t)
       \/ edges' = edges
    /\ Cardinality(DOMAIN edges') <= MaxEdges
    /\ last' = Untracked
    /\ UNCHANGED <<roadmaps, nodes, inflight, documents, revisions, blobs, docpc,
                 doclast, links, call>>

update_roadmap_edge(e, h, s, t) ==
    IF e \notin DOMAIN edges THEN edges
    ELSE IF RoadmapPublished(roadmaps, edges[e].roadmap_id) THEN edges
    ELSE IF /\ s # 0
            /\ s # edges[e].source_node_id
            /\ ~EndpointInRoadmap(nodes, s, edges[e].roadmap_id)
    THEN edges
    ELSE IF /\ t # 0
            /\ t # edges[e].target_node_id
            /\ ~EndpointInRoadmap(nodes, t, edges[e].roadmap_id)
    THEN edges
    ELSE IF /\ h # "none"
            /\ h # edges[e].handle
            /\ EdgeHandleTaken(edges, edges[e].roadmap_id, h)
    THEN edges
    ELSE [edges EXCEPT
              ![e].handle = IF h = "none" THEN @ ELSE h,
              ![e].source_node_id = IF s = 0 THEN @ ELSE s,
              ![e].target_node_id = IF t = 0 THEN @ ELSE t]

UpdateEdge(e, h, s, t) ==
    /\ edges' = update_roadmap_edge(e, h, s, t)
    /\ last' = Untracked
    /\ UNCHANGED <<roadmaps, nodes, inflight, documents, revisions, blobs, docpc,
                 doclast, links, call>>

delete_roadmap_edge(e) ==
    IF e \notin DOMAIN edges THEN edges
    ELSE IF RoadmapPublished(roadmaps, edges[e].roadmap_id) THEN edges
    ELSE Drop(edges, {e})

DeleteEdge(e) ==
    /\ edges' = delete_roadmap_edge(e)
    /\ last' = Untracked
    /\ UNCHANGED <<roadmaps, nodes, inflight, documents, revisions, blobs, docpc,
                 doclast, links, call>>

\* RoadmapEdgeUpdate payloads: (handle, source_node_id, target_node_id).
EdgeUpdateInputs ==
    {<<h, 0, 0>> : h \in EdgeHandles}
        \cup {<<"none", s, 0>> : s \in NodeIds}
        \cup {<<"none", 0, t>> : t \in NodeIds}


(***************************************************************************)
(* The roadmap service, one request at a time.                             *)
(***************************************************************************)
Init ==
    /\ roadmaps = Empty
    /\ nodes = Empty
    /\ edges = Empty
    /\ last = NoResponse
    /\ inflight = {}
    /\ documents = Empty
    /\ revisions = <<>>
    /\ blobs = Empty
    /\ docpc = Idle
    /\ doclast = NoDocResponse
    /\ links = Empty
    /\ call = NoCall

Next ==
    \/ \E c \in CreateInputs : CreateRoadmap(c[1], c[2], c[3])
    \/ \E r \in RoadmapIds, upd \in UpdatePayloads : UpdateRoadmap(r, upd)
    \/ \E r \in RoadmapIds : Publish(r)
    \/ \E r \in RoadmapIds, v \in CloneLabels : Clone(r, v)
    \/ \E r \in RoadmapIds, h \in NodeHandles : CreateNode(r, h)
    \/ \E n \in NodeIds, h \in NodeHandles : UpdateNode(n, h)
    \/ \E n \in NodeIds : DeleteNode(n)
    \/ \E n \in NodeIds : DeleteNodeRejected(n)
    \/ \E r \in RoadmapIds, h \in EdgeHandles, s \in NodeIds, t \in NodeIds :
           CreateEdge(r, h, s, t)
    \/ \E e \in EdgeIds, u \in EdgeUpdateInputs : UpdateEdge(e, u[1], u[2], u[3])
    \/ \E e \in EdgeIds : DeleteEdge(e)

Spec == Init /\ [][Next]_vars

(***************************************************************************)
(* The same service with the new-version request shown at its two commits: *)
(* the request can end between them (the process dies, the request is      *)
(* cancelled, the connection is lost), and what it has not committed is    *)
(* rolled back.                                                            *)
(***************************************************************************)
CloneCommitDemote(r, new_version) ==
    /\ inflight = {}
    /\ clone_validate(roadmaps, r, new_version) = "ok"
    /\ roadmaps' = clone_demote(roadmaps, r)
    /\ inflight' = {[op |-> "clone", roadmap_id |-> r, new_version |-> new_version]}
    /\ last' = Untracked
    /\ UNCHANGED <<nodes, edges, documents, revisions, blobs, docpc,
                 doclast, links, call>>

CloneCommitCopy ==
    \E q \in inflight :
        \E out \in {clone_copy(roadmaps, nodes, edges, q.roadmap_id, q.new_version)} :
            /\ q.op = "clone"
            /\ Fits(out)
            /\ roadmaps' = out.roadmaps
            /\ nodes' = out.nodes
            /\ edges' = out.edges
            /\ inflight' = {}
            /\ last' = Response("clone", out.res, q.roadmap_id, out.new, q.new_version)
            /\ UNCHANGED <<documents, revisions, blobs, docpc,
                 doclast, links, call>>

CloneAborted ==
    \E q \in inflight :
        /\ q.op = "clone"
        /\ inflight' = {}
        /\ last' = Response("clone", "aborted", q.roadmap_id, 0, q.new_version)
        /\ UNCHANGED <<roadmaps, nodes, edges, documents, revisions, blobs, docpc,
                 doclast, links, call>>

NextAbort ==
    \/ inflight = {} /\ \E c \in CreateInputs : CreateRoadmap(c[1], c[2], c[3])
    \/ inflight = {} /\ \E r \in RoadmapIds, upd \in UpdatePayloads : UpdateRoadmap(r, upd)
    \/ inflight = {} /\ \E r \in RoadmapIds : Publish(r)
    \/ inflight = {} /\ \E r \in RoadmapIds, h \in NodeHandles : CreateNode(r, h)
    \/ inflight = {} /\ \E r \in RoadmapIds, h \in EdgeHandles, s \in NodeIds, t \in NodeIds :
                            CreateEdge(r, h, s, t)
    \/ \E r \in RoadmapIds, v \in CloneLabels : CloneCommitDemote(r, v)
    \/ CloneCommitCopy
    \/ CloneAborted

SpecAbort == Init /\ [][NextAbort]_vars

(***************************************************************************)
(* Requests served concurrently, each with its own session: a              *)
(* create_roadmap_node request is suspended at its awaits, so other        *)
(* requests run between its reads of the roadmap and of the handle and the *)
(* commit of its insert.                                                   *)
(***************************************************************************)
NodeCreateBegin(r, h) ==
    /\ inflight = {}
    /\ create_node_check(roadmaps, nodes, r, h) = "ok"
    /\ inflight' = {[op |-> "create_node", roadmap_id |-> r, handle |-> h]}
    /\ last' = Untracked
    /\ UNCHANGED <<roadmaps, nodes, edges, documents, revisions, blobs, docpc,
                 doclast, links, call>>

\* db.add(db_node); await db.commit().  The insert fails on
\* UniqueConstraint('roadmap_id', 'handle') when the handle was taken meanwhile.
NodeCreateCommit ==
    \E q \in inflight :
        /\ q.op = "create_node"
        /\ nodes' = IF NodeHandleTaken(nodes, q.roadmap_id, q.handle)
                    THEN nodes
                    ELSE Put(nodes, FreshId(nodes), NodeRow(q.roadmap_id, q.handle))
        /\ Cardinality(DOMAIN nodes') <= MaxNodes
        /\ inflight' = {}
        /\ last' = Untracked
        /\ UNCHANGED <<roadmaps, edges, documents, revisions, blobs, docpc,
                 doclast, links, call>>

NextRace ==
    \/ \E c \in CreateInputs : CreateRoadmap(c[1], c[2], c[3])
    \/ \E r \in RoadmapIds, upd \in UpdatePayloads : UpdateRoadmap(r, upd)
    \/ \E r \in RoadmapIds : Publish(r)
    \/ \E r \in RoadmapIds, h \in NodeHandles : CreateNode(r, h)
    \/ \E n \in NodeIds : DeleteNode(n)
    \/ \E r \in RoadmapIds, h \in EdgeHandles, s \in NodeIds, t \in NodeIds :
           CreateEdge(r, h, s, t)
    \/ \E r \in RoadmapIds, h \in NodeHandles : NodeCreateBegin(r, h)
    \/ NodeCreateCommit

SpecRace == Init /\ [][NextRace]_vars

(***************************************************************************)
(* The node and edge requests with two edge handles, so that one roadmap   *)
(* can hold two edges and an edge can be renamed to the other's handle.    *)
(***************************************************************************)
AllEdgeHandles == {"e1", "e2"}

NextHandles ==
    \/ \E c \in CreateInputs : CreateRoadmap(c[1], c[2], c[3])
    \/ \E r \in RoadmapIds : Publish(r)
    \/ \E r \in RoadmapIds : Clone(r, V200)
    \/ \E r \in RoadmapIds, h \in NodeHandles : CreateNode(r, h)
    \/ \E n \in NodeIds, h \in NodeHandles : UpdateNode(n, h)
    \/ \E r \in RoadmapIds, h \in AllEdgeHandles, s \in NodeIds, t \in NodeIds :
           CreateEdge(r, h, s, t)
    \/ \E e \in EdgeIds, h \in AllEdgeHandles : UpdateEdge(e, h, 0, 0)

SpecHandles == Init /\ [][NextHandles]_vars

(***************************************************************************)
(* The document service (services/document.py).  create_document and       *)
(* update_document add their rows to the session, flush them to the        *)
(* database and only then save the content; each request is therefore two  *)
(* steps, the flush and the save, and the save can fail.                   *)
(***************************************************************************)
DigitChar(d) == CHOOSE c \in Digits : DigitVal(c) = d

\* str(n) of an integer.
RECURSIVE IntText(_)
IntText(n) ==
    IF n < 0 THEN <<"-">> \o IntText(0 - n)
    ELSE IF n < 10 THEN <<DigitChar(n)>>
    ELSE IntText(n \div 10) \o <<DigitChar(n % 10)>>

\* A format_version that writes minor before major.
format_version_swapped(major, minor, patch) ==
    IntText(minor) \o <<".">> \o IntText(major) \o <<".">> \o IntText(patch)

\* VersionUtility.format_version: f"{major}.{minor}.{patch}".
format_version(major, minor, patch) ==
    IntText(major) \o <<".">> \o IntText(minor) \o <<".">> \o IntText(patch)

VersionTypes == {"major", "minor", "patch"}

\* An increment_version whose minor increment leaves patch as it was.
increment_version_keeps_patch(v, version_type) ==
    LET p == parse_version(v)
    IN  IF version_type = "major" THEN format_version(p[1] + 1, 0, 0)
        ELSE IF version_type = "minor" THEN format_version(p[1], p[2] + 1, p[3])
        ELSE format_version(p[1], p[2], p[3] + 1)

\* VersionUtility.increment_version, for a version parse_version accepts and
\* a version type in VersionTypes.
increment_version(v, version_type) ==
    LET p == parse_version(v)
    IN  IF version_type = "major" THEN format_version(p[1] + 1, 0, 0)
        ELSE IF version_type = "minor" THEN format_version(p[1], p[2] + 1, 0)
        ELSE format_version(p[1], p[2], p[3] + 1)

\* A storage key that leaves the version out.
get_storage_key_unversioned(document_id, version) ==
    <<"documents", document_id, <<"l", "a", "t", "e", "s", "t", ".", "j", "s", "o", "n">>>>

\* LocalStorageService.get_storage_key:
\* os.path.join("documents", str(document_id), f"{version}.json").
get_storage_key(document_id, version) ==
    <<"documents", document_id, version \o <<".", "j", "s", "o", "n">>>>

\* A text is a run of one character; len(text) is the length of the run.
Text(ch, n) == [ch |-> ch, n |-> n]
len(text) == text.n
Section(title, ch, n) == [title |-> title, content |-> Text(ch, n)]

\* Request inputs: content snapshots.  Retitled changes the title, Added adds
\* a section, Small changes one section by 10 characters, Big by more than
\* 50, Untitled has no "title" key.
BaseContent == [title |-> "T", sections |-> <<Section("s1", "a", 100)>>]
Retitled == [title |-> "T2", sections |-> <<Section("s1", "a", 100)>>]
Added == [title |-> "T", sections |-> <<Section("s1", "a", 100), Section("s2", "a", 10)>>]
Small == [title |-> "T", sections |-> <<Section("s1", "a", 110)>>]
Big == [title |-> "T", sections |-> <<Section("s1", "a", 160)>>]
Untitled == [sections |-> <<Section("s1", "a", 100)>>]
DocContents == {BaseContent, Untitled}

\* dict.get(key, default).
Get(dict, key, default) == IF key \in DOMAIN dict THEN dict[key] ELSE default

\* {s.get("title"): s.get("content", "") for s in sections}: a later section
\* replaces an earlier one of the same title.
section_map(sections) ==
    LET titles == {Get(sections[i], "title", "None") : i \in 1..Len(sections)}
        lastOf(t) == CHOOSE i \in 1..Len(sections) :
                        /\ Get(sections[i], "title", "None") = t
                        /\ \A j \in (i + 1)..Len(sections) :
                               Get(sections[j], "title", "None") # t
    IN  [t \in titles |-> Get(sections[lastOf(t)], "content", Text("", 0))]

Abs(x) == IF x < 0 THEN 0 - x ELSE x

\* A determine_version_type for which a difference of 50 is already large.
determine_version_type_from_50(old_content, new_content) ==
    LET old_sections == Get(old_content, "sections", <<>>)
        new_sections == Get(new_content, "sections", <<>>)
        old_section_map == section_map(old_sections)
        new_section_map == section_map(new_sections)
    IN  IF Get(old_content, "title", "None") # Get(new_content, "title", "None")
        THEN "minor"
        ELSE IF Len(old_sections) # Len(new_sections) THEN "minor"
        ELSE IF DOMAIN old_section_map # DOMAIN new_section_map THEN "minor"
        ELSE IF \E t \in DOMAIN old_section_map :
                    /\ old_section_map[t] # new_section_map[t]
                    /\ Abs(len(old_section_map[t]) - len(new_section_map[t])) >= 50
        THEN "minor"
        ELSE "patch"

\* VersionUtility.determine_version_type.
determine_version_type(old_content, new_content) ==
    LET old_sections == Get(old_content, "sections", <<>>)
        new_sections == Get(new_content, "sections", <<>>)
        old_section_map == section_map(old_sections)
        new_section_map == section_map(new_sections)
    IN  IF Get(old_content, "title", "None") # Get(new_content, "title", "None")
        THEN "minor"
        ELSE IF Len(old_sections) # Len(new_sections) THEN "minor"
        ELSE IF DOMAIN old_section_map # DOMAIN new_section_map THEN "minor"
        ELSE IF \E t \in DOMAIN old_section_map :
                    /\ old_section_map[t] # new_section_map[t]
                    /\ Abs(len(old_section_map[t]) - len(new_section_map[t])) > 50
        THEN "minor"
        ELSE "patch"

\* The version_type argument: "auto" asks for determine_version_type, "bogus"
\* is one increment_version rejects.
VersionTypeInputs == VersionTypes \cup {"auto", "bogus"}
UpdateInputs ==
    {<<BaseContent, "major">>, <<Retitled, "minor">>, <<BaseContent, "patch">>,
     <<BaseContent, "bogus">>, <<Added, "auto">>, <<Small, "auto">>, <<Big, "auto">>,
     <<Untitled, "auto">>}
DocumentIds == 1..MaxDocs

RevisionsOf(revs, d) == SelectSeq(revs, LAMBDA rev : rev.document_id = d)

\* The table without its unique constraint.
RevisionUniqueViolated_dropped(revs, d, v) == FALSE

\* UniqueConstraint('document_id', 'version').
RevisionUniqueViolated(revs, d, v) ==
    \E i \in 1..Len(revs) : revs[i].document_id = d /\ revs[i].version = v

\* datetime.now(UTC): later than every timestamp stored so far.
Now(docs, revs) ==
    LET stamps == {0} \cup {docs[d].updated_at : d \in DOMAIN docs}
                      \cup {revs[i].created_at : i \in 1..Len(revs)}
    IN  1 + CHOOSE t \in stamps : \A u \in stamps : u <= t

\* The table after db.add(revision) of create_document is flushed.
initial_revision_missing(revs, d, initial_version, now) == revs

initial_revision(revs, d, initial_version, now) ==
    Append(revs, [document_id |-> d, version |-> initial_version,
                  storage_key |-> get_storage_key(d, initial_version),
                  created_at |-> now])

\* create_document up to and including "await db.flush()".
CreateDocumentFlush(title, description, content) ==
    /\ docpc = Idle
    /\ Cardinality(DOMAIN documents) < MaxDocs
    /\ Len(revisions) < MaxRevs
    /\ LET d == FreshId(documents)
           now == Now(documents, revisions)
           initial_version == V100
       IN  /\ documents' = Put(documents, d,
                  [title |-> title, description |-> description,
                   created_at |-> now, updated_at |-> now])
           /\ revisions' = initial_revision(revisions, d, initial_version, now)
           /\ docpc' = [op |-> "create", document_id |-> d, version |-> initial_version,
                        content |-> content,
                        undo |-> [documents |-> documents, revisions |-> revisions]]
    /\ UNCHANGED <<roadmaps, nodes, edges, last, inflight, blobs, doclast, links, call>>

\* get_latest_revision ordering by created_at ascending.
get_latest_revision_oldest(revs, d) ==
    LET mine == RevisionsOf(revs, d)
    IN  mine[CHOOSE i \in 1..Len(mine) :
                 \A j \in 1..Len(mine) : mine[i].created_at <= mine[j].created_at]

\* get_latest_revision without its order_by: the row the table yields first.
get_latest_revision_unordered(revs, d) == RevisionsOf(revs, d)[1]

\* get_latest_revision: order_by(desc(created_at)).limit(1).
get_latest_revision(revs, d) ==
    LET mine == RevisionsOf(revs, d)
    IN  mine[CHOOSE i \in 1..Len(mine) :
                 \A j \in 1..Len(mine) : mine[j].created_at <= mine[i].created_at]

\* The version type update_document increments by: the argument, or for
\* "auto" what determine_version_type makes of the latest revision's content.
resolve_version_type(latest_content, content, version_type) ==
    IF version_type = "auto"
    THEN determine_version_type(latest_content, content)
    ELSE version_type

\* update_document reporting a document without revisions as a missing one.
update_document_check_one_error(d, content, version_type) ==
    IF d \notin DOMAIN documents \/ Len(RevisionsOf(revisions, d)) = 0
    THEN "DocumentNotFound"
    ELSE "FileNotFoundError"

\* update_document up to and including "await db.flush()": the outcome of
\* its checks, "ok" when the new revision row is flushed.
update_document_check(d, content, version_type) ==
    IF d \notin DOMAIN documents THEN "DocumentNotFound"
    ELSE IF Len(RevisionsOf(revisions, d)) = 0 THEN "NoRevisionsFound"
    ELSE LET latest_revision == get_latest_revision(revisions, d)
         IN  IF latest_revision.storage_key \notin DOMAIN blobs THEN "FileNotFoundError"
             ELSE LET kind == resolve_version_type(blobs[latest_revision.storage_key],
                                                   content, version_type)
                  IN  IF kind \notin VersionTypes THEN "InvalidVersionType"
                      ELSE IF RevisionUniqueViolated(revisions, d,
                                  increment_version(latest_revision.version, kind))
                      THEN "IntegrityError"
                      ELSE "ok"

\* update_document writing the new version over the latest revision's row.
update_document_rows_in_place(d, content, version_type) ==
    LET latest_revision == get_latest_revision(revisions, d)
        kind == resolve_version_type(blobs[latest_revision.storage_key],
                                     content, version_type)
        new_version == increment_version(latest_revision.version, kind)
        now == Now(documents, revisions)
    IN  [version |-> new_version,
         revisions |-> [i \in 1..Len(revisions) |->
             IF revisions[i] = latest_revision
             THEN [document_id |-> d, version |-> new_version,
                   storage_key |-> get_storage_key(d, new_version),
                   created_at |-> now]
             ELSE revisions[i]],
         documents |-> Put(documents, d, [documents[d] EXCEPT !.updated_at = now])]

\* The rows update_document flushes: the new revision, and the document with
\* its updated_at and, for a content that has one, its title.
update_document_rows(d, content, version_type) ==
    LET latest_revision == get_latest_revision(revisions, d)
        kind == resolve_version_type(blobs[latest_revision.storage_key],
                                     content, version_type)
        new_version == increment_version(latest_revision.version, kind)
        now == Now(documents, revisions)
        touched == [documents[d] EXCEPT !.updated_at = now]
    IN  [version |-> new_version,
         revisions |-> Append(revisions,
             [document_id |-> d, version |-> new_version,
              storage_key |-> get_storage_key(d, new_version),
              created_at |-> now]),
         documents |-> Put(documents, d,
             IF "title" \in DOMAIN content
             THEN [touched EXCEPT !.title = content["title"]]
             ELSE touched)]

UpdateDocumentFlush(d, content, version_type) ==
    /\ docpc = Idle
    /\ \E res \in {update_document_check(d, content, version_type)} :
         IF res # "ok"
         THEN /\ doclast' = DocResponse("update", res, d, <<>>)
              /\ UNCHANGED <<documents, revisions, docpc>>
         ELSE \E out \in {update_document_rows(d, content, version_type)} :
                  /\ Len(revisions) < MaxRevs
                  /\ revisions' = out.revisions
                  /\ documents' = out.documents
                  /\ docpc' = [op |-> "update", document_id |-> d,
                               version |-> out.version, content |-> content,
                               version_type |-> version_type,
                               undo |-> [documents |-> documents, revisions |-> revisions]]
                  /\ UNCHANGED doclast
    /\ UNCHANGED <<roadmaps, nodes, edges, last, inflight, blobs, links, call>>

\* "await self.save_content(content, document.id, version)" returns and with
\* it the request: the content is stored under the key of (document id,
\* version).
SaveContent ==
    /\ docpc # Idle
    /\ blobs' = Put(blobs, get_storage_key(docpc.document_id, docpc.version), docpc.content)
    /\ doclast' = DocResponse(docpc.op, "ok", docpc.document_id, docpc.version)
    /\ docpc' = Idle
    /\ UNCHANGED <<roadmaps, nodes, edges, last, inflight, documents, revisions, links, call>>

\* save_content raises: the exception leaves the service and the request's
\* session is closed without a commit, which rolls the flushed rows back.
SaveContentFails ==
    /\ docpc # Idle
    /\ documents' = docpc.undo.documents
    /\ revisions' = docpc.undo.revisions
    /\ doclast' = DocResponse(docpc.op, "StorageError", docpc.document_id, docpc.version)
    /\ docpc' = Idle
    /\ UNCHANGED <<roadmaps, nodes, edges, last, inflight, blobs, links, call>>

NextDoc ==
    \/ \E c \in DocContents : CreateDocumentFlush("D", "dD", c)
    \/ \E d \in DocumentIds, u \in UpdateInputs : UpdateDocumentFlush(d, u[1], u[2])
    \/ SaveContent
    \/ SaveContentFails

SpecDoc == Init /\ [][NextDoc]_vars

\* The service run against a database it did not fill itself: the tables are
\* also written outside the service (db/seeders/document_seed.py adds and
\* flushes a Document before any of its revisions), so the database the
\* service starts from may hold a document row that has no revision.
BareDocument == [title |-> "D", description |-> "dD", created_at |-> 1, updated_at |-> 1]

InitAny ==
    /\ roadmaps = Empty
    /\ nodes = Empty
    /\ edges = Empty
    /\ last = NoResponse
    /\ inflight = {}
    /\ documents \in {Empty, Put(Empty, 1, BareDocument)}
    /\ revisions = <<>>
    /\ blobs = Empty
    /\ docpc = Idle
    /\ doclast = NoDocResponse
    /\ links = Empty
    /\ call = NoCall

SpecDocAny == InitAny /\ [][NextDoc]_vars

(***************************************************************************)
(* update_document requests served concurrently, each with its own session *)
(* and transaction.  A request is suspended at its awaits: after it has    *)
(* read the document, its latest revision and that revision's content, and *)
(* after its flush.  A session reads the rows that are committed.  The     *)
(* flush updates the document row and inserts the revision row, so it      *)
(* waits while another transaction that has flushed rows of the same       *)
(* document is open; the caller commits when the request has returned.     *)
(***************************************************************************)
MaxInflight == 2
MaxRaceDocs == 1

RaceInputs ==
    {<<BaseContent, "major">>, <<BaseContent, "minor">>, <<BaseContent, "patch">>,
     <<Added, "auto">>}

\* The rows flushed by transactions that are still open.
Flushed == {q \in inflight : q.stage = "flushed"}
OpenCreate == IF docpc # Idle /\ docpc.op = "create" THEN {docpc.document_id} ELSE {}
IsCommitted(rev) ==
    /\ rev.document_id \notin OpenCreate
    /\ \A q \in Flushed : ~(q.document_id = rev.document_id /\ q.version = rev.version)
CommittedRevisions == SelectSeq(revisions, IsCommitted)

\* update_document from its first statement to the return of load_content.
UpdateBegin(rid, d, content, version_type) ==
    /\ Cardinality(inflight) < MaxInflight
    /\ \A q \in inflight : q.rid # rid
    /\ IF d \notin DOMAIN documents \ OpenCreate
       THEN /\ doclast' = DocResponse("update", "DocumentNotFound", d, <<>>)
            /\ UNCHANGED inflight
       ELSE IF Len(RevisionsOf(CommittedRevisions, d)) = 0
       THEN /\ doclast' = DocResponse("update", "NoRevisionsFound", d, <<>>)
            /\ UNCHANGED inflight
       ELSE \E latest_revision \in {get_latest_revision(CommittedRevisions, d)} :
              IF latest_revision.storage_key \notin DOMAIN blobs
              THEN /\ doclast' = DocResponse("update", "FileNotFoundError", d, <<>>)
                   /\ UNCHANGED inflight
              ELSE /\ inflight' = inflight \cup
                         {[op |-> "update_document", rid |-> rid, stage |-> "read",
                           document_id |-> d, content |-> content,
                           version_type |-> version_type,
                           latest_revision |-> latest_revision,
                           latest_content |-> blobs[latest_revision.storage_key]]}
                   /\ UNCHANGED doclast
    /\ UNCHANGED <<roadmaps, nodes, edges, last, documents, revisions, blobs, docpc, links, call>>

\* The version computed from the latest revision at the time of the flush.
race_new_version_reread(q) ==
    LET latest_revision == get_latest_revision(CommittedRevisions, q.document_id)
    IN  increment_version(latest_revision.version,
            resolve_version_type(blobs[latest_revision.storage_key], q.content,
                                 q.version_type))

\* The version the suspended request q computes from what it has read.
race_new_version(q) ==
    increment_version(q.latest_revision.version,
        resolve_version_type(q.latest_content, q.content, q.version_type))

\* update_document from the return of load_content to the return of
\* "await db.flush()": the insert fails on UniqueConstraint('document_id',
\* 'version') when a committed revision of the document has the version.
UpdateFlushRace(q) ==
    /\ q \in inflight
    /\ q.stage = "read"
    /\ \A o \in Flushed : o.document_id # q.document_id
    /\ q.document_id \notin OpenCreate
    /\ \E new_version \in {race_new_version(q)} :
         IF RevisionUniqueViolated(revisions, q.document_id, new_version)
         THEN /\ inflight' = inflight \ {q}
              /\ doclast' = DocResponse("update", "IntegrityError", q.document_id, new_version)
              /\ UNCHANGED <<documents, revisions>>
         ELSE \E now \in {Now(documents, revisions)} :
                /\ Len(revisions) < MaxRevs
                /\ revisions' = Append(revisions,
                       [document_id |-> q.document_id, version |-> new_version,
                        storage_key |-> get_storage_key(q.document_id, new_version),
                        created_at |-> now])
                /\ documents' = Put(documents, q.document_id,
                       IF "title" \in DOMAIN q.content
                       THEN [documents[q.document_id] EXCEPT
                                !.updated_at = now, !.title = q.content["title"]]
                       ELSE [documents[q.document_id] EXCEPT !.updated_at = now])
                /\ inflight' = (inflight \ {q}) \cup
                       {[op |-> "update_document", rid |-> q.rid, stage |-> "flushed",
                         document_id |-> q.document_id, content |-> q.content,
                         version_type |-> q.version_type,
                         latest_revision |-> q.latest_revision,
                         version |-> new_version,
                         undo |-> documents[q.document_id]]}
                /\ UNCHANGED doclast
    /\ UNCHANGED <<roadmaps, nodes, edges, last, blobs, docpc, links, call>>

\* save_content returns, update_document returns and the caller commits.
UpdateSaveRace(q) ==
    /\ q \in Flushed
    /\ blobs' = Put(blobs, get_storage_key(q.document_id, q.version), q.content)
    /\ inflight' = inflight \ {q}
    /\ doclast' = DocResponse("update", "ok", q.document_id, q.version)
    /\ UNCHANGED <<roadmaps, nodes, edges, last, documents, revisions, docpc, links, call>>

\* save_content raises and the transaction is rolled back.
UpdateSaveRaceFails(q) ==
    /\ q \in Flushed
    /\ revisions' = SelectSeq(revisions,
           LAMBDA rev : ~(rev.document_id = q.document_id /\ rev.version = q.version))
    /\ documents' = Put(documents, q.document_id, q.undo)
    /\ inflight' = inflight \ {q}
    /\ doclast' = DocResponse("update", "StorageError", q.document_id, q.version)
    /\ UNCHANGED <<roadmaps, nodes, edges, last, blobs, docpc, links, call>>

\* save_content of create_document raises and the transaction is rolled
\* back: the rows it flushed go, the rows of other transactions stay.
CreateSaveRaceFails ==
    /\ docpc # Idle
    /\ docpc.op = "create"
    /\ documents' = Drop(documents, {docpc.document_id})
    /\ revisions' = SelectSeq(revisions, LAMBDA rev : rev.document_id # docpc.document_id)
    /\ doclast' = DocResponse("create", "StorageError", docpc.document_id, docpc.version)
    /\ docpc' = Idle
    /\ UNCHANGED <<roadmaps, nodes, edges, last, inflight, blobs, links, call>>

NextDocRace ==
    \/ \E c \in DocContents :
           /\ Cardinality(DOMAIN documents) < MaxRaceDocs
           /\ CreateDocumentFlush("D", "dD", c)
    \/ SaveContent
    \/ CreateSaveRaceFails
    \/ \E rid \in 1..MaxInflight, d \in DocumentIds, u \in RaceInputs :
           UpdateBegin(rid, d, u[1], u[2])
    \/ \E q \in inflight : UpdateFlushRace(q)
    \/ \E q \in inflight : UpdateSaveRace(q)
    \/ \E q \in inflight : UpdateSaveRaceFails(q)

SpecDocRace == Init /\ [][NextDocRace]_vars

(***************************************************************************)
(* Links between roadmap nodes and documents (link_node_document and       *)
(* unlink_node_document of services/document.py).  An Optional[int]        *)
(* argument is a sequence: <<>> for None, <<i>> for the integer i.         *)
(***************************************************************************)
MaxOrder == 350
MaxLinks == 2
MaxPart == 12
MaxTextLen == 6
MaxSections == 2

RelationTypes == {"primary", "related", ""}
OrderPositions == {<<>>, <<250>>}

LinkResponse(op, res, n, d, relation_type, order_position) ==
    [op |-> op, res |-> res, node_id |-> n, document_id |-> d,
     relation_type |-> relation_type, order_position |-> order_position]

\* select(NodeDocumentLink).where(node_id == ..., document_id == ...).
LinksOf(lks, n, d) == {l \in DOMAIN lks : lks[l].node_id = n /\ lks[l].document_id = d}

\* An order position counted from the number of the node's links.
next_order_position_counted(lks, n) ==
    100 * (Cardinality({l \in DOMAIN lks : lks[l].node_id = n}) + 1)

\* max_order = select(func.max(order_position)).where(node_id == ...) or 0;
\* order_position = max_order + 100.
next_order_position(lks, n) ==
    LET positions == {lks[l].order_position : l \in {k \in DOMAIN lks : lks[k].node_id = n}}
        max_order == IF positions = {} THEN 0
                     ELSE CHOOSE x \in positions : \A y \in positions : y <= x
    IN  max_order + 100

\* link_node_document: the outcome and the table after its flush.
link_node_document(n, d, relation_type, order_position) ==
    IF n \notin DOMAIN nodes THEN [res |-> "NodeNotFound", links |-> links]
    ELSE IF d \notin DOMAIN documents \ OpenCreate
    THEN [res |-> "DocumentNotFound", links |-> links]
    ELSE IF LinksOf(links, n, d) # {}
    THEN LET existing_link == CHOOSE l \in LinksOf(links, n, d) : TRUE
             typed == IF relation_type # ""
                      THEN [links[existing_link] EXCEPT !.relation_type = relation_type]
                      ELSE links[existing_link]
             placed == IF order_position # <<>>
                       THEN [typed EXCEPT !.order_position = order_position[1]]
                       ELSE typed
         IN  [res |-> "updated", links |-> Put(links, existing_link, placed)]
    ELSE [res |-> "created",
          links |-> Put(links, FreshId(links),
                        [node_id |-> n, document_id |-> d,
                         relation_type |-> relation_type,
                         order_position |-> IF order_position = <<>>
                                            THEN next_order_position(links, n)
                                            ELSE order_position[1]])]

LinkNodeDocument(n, d, relation_type, order_position) ==
    \E out \in {link_node_document(n, d, relation_type, order_position)} :
        /\ \A l \in DOMAIN out.links : out.links[l].order_position <= MaxOrder
        /\ Cardinality(DOMAIN out.links) <= MaxLinks
        /\ links' = out.links
        /\ doclast' = LinkResponse("link", out.res, n, d, relation_type, order_position)
        /\ UNCHANGED <<roadmaps, nodes, edges, last, inflight, documents, revisions,
                       blobs, docpc, call>>

\* unlink_node_document deleting every link of the node.
unlink_node_document_whole_node(n, d) ==
    [res |-> LinksOf(links, n, d) # {},
     links |-> Drop(links, {l \in DOMAIN links : links[l].node_id = n})]

\* unlink_node_document: False when the pair has no link, else the link is
\* deleted and the result is True.
unlink_node_document(n, d) ==
    IF LinksOf(links, n, d) = {}
    THEN [res |-> FALSE, links |-> links]
    ELSE [res |-> TRUE, links |-> Drop(links, LinksOf(links, n, d))]

UnlinkNodeDocument(n, d) ==
    /\ links' = unlink_node_document(n, d).links
    /\ doclast' = LinkResponse("unlink", unlink_node_document(n, d).res, n, d, "", <<>>)
    /\ UNCHANGED <<roadmaps, nodes, edges, last, inflight, documents, revisions,
                   blobs, docpc, call>>

NextLink ==
    \/ \E c \in CreateInputs : CreateRoadmap(c[1], c[2], c[3])
    \/ \E r \in RoadmapIds, h \in NodeHandles : CreateNode(r, h)
    \/ CreateDocumentFlush("D", "dD", BaseContent)
    \/ SaveContent
    \/ \E n \in NodeIds, d \in DocumentIds, rt \in RelationTypes, o \in OrderPositions :
           LinkNodeDocument(n, d, rt, o)
    \/ \E n \in NodeIds, d \in DocumentIds : UnlinkNodeDocument(n, d)

SpecLink == Init /\ [][NextLink]_vars

(***************************************************************************)
(* VersionUtility and DocumentDiffUtility called on their own.  Their      *)
(* methods are static and touch no table; a call is drawn with its         *)
(* arguments at the start and leaves its outcome in `call`.                *)
(***************************************************************************)
Tables == <<roadmaps, nodes, edges, last, inflight, documents, revisions, blobs, docpc,
            doclast, links>>

Pending(fn, args) == [fn |-> fn, args |-> args, raised |-> "pending", value |-> <<>>]
Return(value) == [call EXCEPT !.raised = "none", !.value = value]
Raise(error) == [call EXCEPT !.raised = error]
Called(fn) == call.fn = fn /\ call.raised # "pending"

\* Version numbers passed to format_version.
Parts == 0..MaxPart

\* Version texts passed to parse_version and is_valid_version.
Texts == UNION {[1..n -> {"1", ".", "+", "-", "x"}] : n \in 0..MaxTextLen}

\* Version texts passed to increment_version: well-formed ones and a few
\* that parse_version rejects.
IncrementTexts ==
    {format_version(p[1], p[2], p[3]) : p \in Parts \X Parts \X Parts}
        \cup {<<"1", ".", "1">>, <<"1", ".", "x", ".", "1">>}

\* Version texts passed to compare_versions, one and two digits a part.
CompareTexts ==
    LET some == {0, 1, 9, 10}
    IN  {format_version(p[1], p[2], p[3]) : p \in some \X some \X some}

\* Sections and content snapshots passed to determine_version_type and
\* compute_section_diff: two section titles, texts whose lengths differ by
\* 0, 50, 51 and 101, duplicated titles, a missing "title" and a missing
\* "sections" key.
Sections ==
    {Section("s1", "a", 100), Section("s1", "b", 100), Section("s1", "a", 150),
     Section("s1", "a", 201), Section("s2", "a", 100), Section("s2", "a", 201)}
SectionLists == UNION {[1..n -> Sections] : n \in 0..MaxSections}
Contents ==
    {[title |-> x[1], sections |-> x[2]] : x \in {"T", "T2"} \X SectionLists}
        \cup {[sections |-> s] : s \in SectionLists}
        \cup {[title |-> "T"]}

InitUtility ==
    /\ roadmaps = Empty
    /\ nodes = Empty
    /\ edges = Empty
    /\ last = NoResponse
    /\ inflight = {}
    /\ documents = Empty
    /\ revisions = <<>>
    /\ blobs = Empty
    /\ docpc = Idle
    /\ doclast = NoDocResponse
    /\ links = Empty
    /\ \/ \E p \in Parts \X Parts \X Parts : call = Pending("format_version", p)
       \/ \E v \in Texts : call = Pending("parse_version", <<v>>)
       \/ \E v \in Texts : call = Pending("is_valid_version", <<v>>)
       \/ \E a \in IncrementTexts \X (VersionTypes \cup {"auto", "bogus"}) : call = Pending("increment_version", a)
       \/ \E a \in CompareTexts \X CompareTexts : call = Pending("compare_versions", a)
       \/ \E a \in Contents \X Contents : call = Pending("determine_version_type", a)
       \/ \E a \in SectionLists \X SectionLists : call = Pending("compute_section_diff", a)

FormatVersion ==
    /\ call.fn = "format_version" /\ call.raised = "pending"
    /\ call' = Return(format_version(call.args[1], call.args[2], call.args[3]))
    /\ UNCHANGED Tables

\* VersionUtility.parse_version: the tuple, or the ValueError it raises.
parse_version_call(version) ==
    LET parts == SplitDots(version)
    IN  IF Len(parts) # 3
        THEN [raised |-> "ValueError", value |-> <<>>]
        ELSE IF \E i \in 1..3 : ~IsIntText(parts[i])
        THEN [raised |-> "ValueError", value |-> <<>>]
        ELSE [raised |-> "none", value |-> parse_version(version)]

ParseVersion ==
    /\ call.fn = "parse_version" /\ call.raised = "pending"
    /\ LET out == parse_version_call(call.args[1])
       IN  call' = IF out.raised = "none" THEN Return(out.value) ELSE Raise(out.raised)
    /\ UNCHANGED Tables

\* VersionUtility.is_valid_version: whether parse_version raised.
IsValidVersion ==
    /\ call.fn = "is_valid_version" /\ call.raised = "pending"
    /\ call' = Return(parse_version_call(call.args[1]).raised = "none")
    /\ UNCHANGED Tables

\* VersionUtility.increment_version: the new text, or the ValueError of
\* parse_version or of the final else branch.
IncrementVersion ==
    /\ call.fn = "increment_version" /\ call.raised = "pending"
    /\ LET version == call.args[1]
           version_type == call.args[2]
       IN  call' = IF parse_version_call(version).raised # "none" THEN Raise("ValueError")
                   ELSE IF version_type \notin VersionTypes THEN Raise("ValueError")
                   ELSE Return(increment_version(version, version_type))
    /\ UNCHANGED Tables

CompareVersions ==
    /\ call.fn = "compare_versions" /\ call.raised = "pending"
    /\ call' = Return(compare_versions(call.args[1], call.args[2]))
    /\ UNCHANGED Tables

DetermineVersionType ==
    /\ call.fn = "determine_version_type" /\ call.raised = "pending"
    /\ call' = Return(determine_version_type(call.args[1], call.args[2]))
    /\ UNCHANGED Tables

\* A compute_section_diff that lists every shared title as modified.
compute_section_diff_all_shared(old_sections, new_sections) ==
    LET old_section_map == section_map(old_sections)
        new_section_map == section_map(new_sections)
        \* The keys of a dict built from `sections`, in insertion order,
        \* without those of `other`.
        Kept(sections, other) ==
            {i \in 1..Len(sections) :
                 /\ sections[i].title \notin DOMAIN other
                 /\ \A j \in 1..(i - 1) : sections[j].title # sections[i].title}
        Nth(idx, k) == CHOOSE i \in idx : Cardinality({j \in idx : j < i}) = k - 1
        Listed(sections, map, other) ==
            [k \in 1..Cardinality(Kept(sections, other)) |->
                 LET title == sections[Nth(Kept(sections, other), k)].title
                 IN  [title |-> title, content |-> map[title]]]
        changed == {title \in DOMAIN old_section_map \cap DOMAIN new_section_map :
                        TRUE}
        orders == {o \in [1..Cardinality(changed) -> changed] :
                       \A i, j \in DOMAIN o : o[i] = o[j] => i = j}
    IN  {[added |-> Listed(new_sections, new_section_map, old_section_map),
          removed |-> Listed(old_sections, old_section_map, new_section_map),
          modified |-> [k \in DOMAIN o |->
                            [title |-> o[k],
                             old_content |-> old_section_map[o[k]],
                             new_content |-> new_section_map[o[k]]]]] : o \in orders}

\* DocumentDiffUtility.compute_section_diff, for sections that all have a
\* "title" and a "content" key: the results it can return.  `added` and
\* `removed` follow the insertion order of the title -> content dicts;
\* `modified` follows the iteration order of a set of str, which the hash
\* seed of the process decides.
compute_section_diff(old_sections, new_sections) ==
    LET old_section_map == section_map(old_sections)
        new_section_map == section_map(new_sections)
        \* The keys of a dict built from `sections`, in insertion order,
        \* without those of `other`.
        Kept(sections, other) ==
            {i \in 1..Len(sections) :
                 /\ sections[i].title \notin DOMAIN other
                 /\ \A j \in 1..(i - 1) : sections[j].title # sections[i].title}
        Nth(idx, k) == CHOOSE i \in idx : Cardinality({j \in idx : j < i}) = k - 1
        Listed(sections, map, other) ==
            [k \in 1..Cardinality(Kept(sections, other)) |->
                 LET title == sections[Nth(Kept(sections, other), k)].title
                 IN  [title |-> title, content |-> map[title]]]
        changed == {title \in DOMAIN old_section_map \cap DOMAIN new_section_map :
                        old_section_map[title] # new_section_map[title]}
        orders == {o \in [1..Cardinality(changed) -> changed] :
                       \A i, j \in DOMAIN o : o[i] = o[j] => i = j}
    IN  {[added |-> Listed(new_sections, new_section_map, old_section_map),
          removed |-> Listed(old_sections, old_section_map, new_section_map),
          modified |-> [k \in DOMAIN o |->
                            [title |-> o[k],
                             old_content |-> old_section_map[o[k]],
                             new_content |-> new_section_map[o[k]]]]] : o \in orders}

ComputeSectionDiff ==
    /\ call.fn = "compute_section_diff" /\ call.raised = "pending"
    /\ \E diff \in compute_section_diff(call.args[1], call.args[2]) : call' = Return(diff)
    /\ UNCHANGED Tables

NextUtility ==
    \/ FormatVersion
    \/ ParseVersion
    \/ IsValidVersion
    \/ IncrementVersion
    \/ CompareVersions
    \/ DetermineVersionType
    \/ ComputeSectionDiff

SpecUtility == InitUtility /\ [][NextUtility]_vars

(***************************************************************************)
(* The storage service called on its own.  get_storage_service picks the   *)
(* backend from settings.STORAGE_TYPE; `blobs` is the directory tree of    *)
(* LocalStorageService or the bucket of MinioStorageService.  Contents are *)
(* JSON values, which json.load(json.dump(...)) gives back unchanged.  The *)
(* calls are modelled without I/O or S3 errors.                            *)
(***************************************************************************)
GetStorageService(backend) ==
    /\ call = NoCall
    /\ call' = [fn |-> "get_storage_service", backend |-> backend, args |-> <<>>,
                raised |-> "none", value |-> <<>>]
    /\ UNCHANGED Tables

\* save_content: both backends write the content under the key of
\* (document_id, version), replacing what was there, and return the key.
StoreSave(document_id, version, content) ==
    /\ call # NoCall
    /\ blobs' = Put(blobs, get_storage_key(document_id, version), content)
    /\ call' = [fn |-> "save_content", backend |-> call.backend,
                args |-> <<content, document_id, version>>,
                raised |-> "none", value |-> get_storage_key(document_id, version)]
    /\ UNCHANGED <<roadmaps, nodes, edges, last, inflight, documents, revisions, docpc,
                   doclast, links>>

\* load_content: os.path.exists fails (local) or get_object answers
\* NoSuchKey (MinIO), and FileNotFoundError is raised; otherwise the stored
\* JSON is returned.
StoreLoad(storage_key) ==
    /\ call # NoCall
    /\ call' = IF storage_key \in DOMAIN blobs
               THEN [fn |-> "load_content", backend |-> call.backend,
                     args |-> <<storage_key>>, raised |-> "none",
                     value |-> blobs[storage_key]]
               ELSE [fn |-> "load_content", backend |-> call.backend,
                     args |-> <<storage_key>>, raised |-> "FileNotFoundError",
                     value |-> <<>>]
    /\ UNCHANGED Tables

\* delete_content: LocalStorageService returns False when os.path.exists
\* fails and otherwise removes the file and returns True;
\* MinioStorageService calls remove_object, which answers without an error
\* whether or not the object exists, and returns True.
StoreDelete(storage_key) ==
    /\ call # NoCall
    /\ blobs' = Drop(blobs, {storage_key})
    /\ call' = [fn |-> "delete_content", backend |-> call.backend,
                args |-> <<storage_key>>, raised |-> "none",
                value |-> IF call.backend = "local"
                          THEN storage_key \in DOMAIN blobs
                          ELSE TRUE]
    /\ UNCHANGED <<roadmaps, nodes, edges, last, inflight, documents, revisions, docpc,
                   doclast, links>>

NextStore ==
    \/ \E backend \in {"local", "minio"} : GetStorageService(backend)
    \/ \E d \in 1..MaxDocs, v \in {V100, V200}, content \in {BaseContent, Small} :
           StoreSave(d, v, content)
    \/ \E d \in 1..MaxDocs, v \in {V100, V200} : StoreLoad(get_storage_key(d, v))
    \/ \E d \in 1..MaxDocs, v \in {V100, V200} : StoreDelete(get_storage_key(d, v))

SpecStore == Init /\ [][NextStore]_vars

(***************************************************************************)
(* The version utility.                                                    *)
(***************************************************************************)
\* C23: for all integers major, minor, patch >= 0, parse_version of
\* format_version(major, minor, patch) is (major, minor, patch), and
\* is_valid_version accepts the formatted text.
C23_FormatParseRoundTrip ==
    Called("format_version") =>
        /\ \A i \in 1..3 : call.args[i] >= 0
        /\ parse_version_call(call.value).raised = "none"
        /\ parse_version_call(call.value).value = call.args
        /\ is_valid_version(call.value)

\* format_version has been called with parts of one and of two digits.
C23_Witness ==
    /\ Called("format_version")
    /\ call.args = <<12, 0, 10>>
    /\ call.value = <<"1", "2", ".", "0", ".", "1", "0">>

\* C24: parse_version raises, and is_valid_version answers False, for every
\* text that is not exactly three dot-separated non-negative integers: too
\* few or too many parts, a part that is no number, a part with a leading
\* "+" or "-"; is_valid_version answers True exactly when parse_version
\* succeeds.
C24_ParseRejections ==
    LET ThreeNumbers(v) == Len(SplitDots(v)) = 3 /\ \A i \in 1..3 : IsDigits(SplitDots(v)[i])
    IN  /\ Called("parse_version") =>
               (call.raised = "ValueError" <=> ~ThreeNumbers(call.args[1]))
        /\ Called("is_valid_version") =>
               /\ call.value = ThreeNumbers(call.args[1])
               /\ call.value = (parse_version_call(call.args[1]).raised = "none")

\* C25: for every version parse_version accepts, increment_version with
\* "major" gives (major + 1, 0, 0), with "minor" gives (major, minor + 1, 0)
\* and never carries into major, with "patch" gives (major, minor,
\* patch + 1); every other version type raises ValueError.
C25_IncrementVersion ==
    (Called("increment_version") /\ is_valid_version(call.args[1])) =>
        LET p == parse_version(call.args[1])
            version_type == call.args[2]
            Gives(tuple) ==
                /\ call.raised = "none"
                /\ parse_version_call(call.value) = [raised |-> "none", value |-> tuple]
        IN  /\ version_type = "major" => Gives(<<p[1] + 1, 0, 0>>)
            /\ version_type = "minor" => Gives(<<p[1], p[2] + 1, 0>>)
            /\ version_type = "patch" => Gives(<<p[1], p[2], p[3] + 1>>)
            /\ version_type \notin {"major", "minor", "patch"} => call.raised = "ValueError"

\* A minor increment has gone from minor 9 to minor 10 with major unchanged,
\* and an unknown version type has been refused for a well-formed version.
C25_Witness ==
    /\ Called("increment_version")
    /\ \/ /\ call.args = <<<<"1", ".", "9", ".", "3">>, "minor">>
          /\ call.value = <<"1", ".", "1", "0", ".", "0">>
       \/ /\ call.args = <<<<"1", ".", "9", ".", "3">>, "bogus">>
          /\ call.raised = "ValueError"

\* C26: compare_versions is the lexicographic order of the (major, minor,
\* patch) tuples compared as integers: 0 exactly when the tuples are equal,
\* -1 when the first is smaller, 1 when it is larger; swapping the
\* arguments negates the result.
C26_CompareIsLexicographic ==
    Called("compare_versions") =>
        LET a == parse_version(call.args[1])
            b == parse_version(call.args[2])
        IN  /\ call.value \in {0 - 1, 0, 1}
            /\ call.value = 0 <=> a = b
            /\ call.value = 0 - 1 <=> (TupleLeq(a, b) /\ a # b)
            /\ call.value = 1 <=> (TupleLeq(b, a) /\ a # b)
            /\ call.value = 0 - compare_versions(call.args[2], call.args[1])

\* A one-digit part has been compared with a two-digit part.
C26_Witness ==
    /\ Called("compare_versions")
    /\ call.args = <<<<"1", ".", "9", ".", "0">>, <<"1", ".", "1", "0", ".", "0">>>>
    /\ call.value = 0 - 1

C28_SectionDiff ==
    LET Range(s) == {s[i] : i \in DOMAIN s}
        Titles(s) == {s[i].title : i \in DOMAIN s}
        Unique(s) == \A i, j \in DOMAIN s : s[i].title = s[j].title => i = j
        old == call.args[1]
        new == call.args[2]
        diff == call.value
    IN  (Called("compute_section_diff") /\ Unique(old) /\ Unique(new)) =>
            /\ Range(diff.added) = {s \in Range(new) : s.title \notin Titles(old)}
            /\ Range(diff.removed) = {s \in Range(old) : s.title \notin Titles(new)}
            /\ Range(diff.modified) =
                   {[title |-> x[1].title, old_content |-> x[1].content,
                     new_content |-> x[2].content] :
                        x \in {y \in Range(old) \X Range(new) :
                                   y[1].title = y[2].title /\ y[1].content # y[2].content}}
            /\ Unique(diff.added) /\ Unique(diff.removed) /\ Unique(diff.modified)
            /\ Titles(diff.added) \cap Titles(diff.removed) = {}
            /\ Titles(diff.added) \cap Titles(diff.modified) = {}
            /\ Titles(diff.removed) \cap Titles(diff.modified) = {}
            /\ old = new => diff = [added |-> <<>>, removed |-> <<>>, modified |-> <<>>]

\* One section was modified, the other removed; and a list with two
\* sections was diffed against itself.
C28_Witness ==
    /\ Called("compute_section_diff")
    /\ \/ /\ call.args = <<<<Section("s1", "a", 100), Section("s2", "a", 100)>>,
                           <<Section("s1", "a", 150)>>>>
          /\ call.value.removed = <<Section("s2", "a", 100)>>
          /\ Len(call.value.modified) = 1
       \/ /\ call.args[1] = call.args[2]
          /\ Len(call.args[1]) = 2
          /\ call.args[1][1].title # call.args[1][2].title
          /\ call.value.modified = <<>>

(***************************************************************************)
(* The storage service.                                                    *)
(***************************************************************************)
\* C29: each storage backend behaves as a map from storage key to content:
\* save_content replaces the content of its key and leaves the other keys
\* alone; load_content returns the content saved last under the key and
\* raises FileNotFoundError for a key never saved or deleted, changing
\* nothing; delete_content removes the key, leaves the others alone, and
\* returns True exactly when the key was present.
C29_StoreIsMap ==
    [][LET key == IF call'.fn = "save_content"
                  THEN get_storage_key(call'.args[2], call'.args[3])
                  ELSE call'.args[1]
       IN  /\ call'.fn = "save_content" =>
                  /\ call'.value = key
                  /\ blobs' = Put(blobs, key, call'.args[1])
           /\ call'.fn = "load_content" =>
                  /\ blobs' = blobs
                  /\ key \in DOMAIN blobs => (call'.raised = "none" /\ call'.value = blobs[key])
                  /\ key \notin DOMAIN blobs => call'.raised = "FileNotFoundError"
           /\ call'.fn = "delete_content" =>
                  /\ blobs' = Drop(blobs, {key})
                  /\ call'.value = (key \in DOMAIN blobs)]_vars

(***************************************************************************)
(* Handles of nodes and edges.                                             *)
(***************************************************************************)
\* C22: in every state no two nodes of one roadmap have the same handle and
\* no two edges of one roadmap have the same handle, and a request that
\* creates a node or an edge with a handle its roadmap already uses, or
\* renames one to a handle another node or edge of its roadmap uses, changes
\* nothing.
C22_HandlesUniquePerRoadmap ==
    /\ \A n \in DOMAIN nodes : \A m \in DOMAIN nodes :
           (nodes[n].roadmap_id = nodes[m].roadmap_id
              /\ nodes[n].handle = nodes[m].handle) => n = m
    /\ \A e \in DOMAIN edges : \A f \in DOMAIN edges :
           (edges[e].roadmap_id = edges[f].roadmap_id
              /\ edges[e].handle = edges[f].handle) => e = f
    /\ \A m \in DOMAIN nodes :
           /\ create_roadmap_node(nodes[m].roadmap_id, nodes[m].handle) = nodes
           /\ \A n \in DOMAIN nodes :
                  (n # m /\ nodes[n].roadmap_id = nodes[m].roadmap_id)
                     => update_roadmap_node(n, nodes[m].handle) = nodes
    /\ \A f \in DOMAIN edges :
           /\ \A s \in NodeIds, t \in NodeIds :
                  create_roadmap_edge(edges[f].roadmap_id, edges[f].handle, s, t) = edges
           /\ \A e \in DOMAIN edges :
                  (e # f /\ edges[e].roadmap_id = edges[f].roadmap_id)
                     => update_roadmap_edge(e, edges[f].handle, 0, 0) = edges

\* Two roadmaps, one the new version of the other, each with a node "n1".
C22_Witness ==
    /\ last.op = "clone" /\ last.res = "ok"
    /\ \E n \in DOMAIN nodes : \E m \in DOMAIN nodes :
           /\ nodes[n].roadmap_id # nodes[m].roadmap_id
           /\ nodes[n].handle = nodes[m].handle

(***************************************************************************)
(* Properties of the document service.                                     *)
(***************************************************************************)
\* C12: when create_document completes, the new document has exactly one
\* revision, of version "1.0.0" and with the storage key of (document id,
\* "1.0.0"), and the content store holds the content that was passed in
\* under that key; and in no state does a document row exist without its
\* initial revision row.
C12_CreateDocumentResult ==
    /\ [](\A d \in DOMAIN documents :
             \E i \in 1..Len(revisions) :
                 revisions[i].document_id = d /\ revisions[i].version = V100)
    /\ [][(docpc.op = "create" /\ doclast'.res = "ok" /\ docpc' = Idle) =>
             LET d == docpc.document_id
                 mine == RevisionsOf(revisions', d)
             IN  /\ d \in DOMAIN documents'
                 /\ Len(mine) = 1
                 /\ mine[1].version = <<"1", ".", "0", ".", "0">>
                 /\ mine[1].storage_key = get_storage_key(d, <<"1", ".", "0", ".", "0">>)
                 /\ mine[1].storage_key \in DOMAIN blobs'
                 /\ blobs'[mine[1].storage_key] = docpc.content]_vars

\* A second document has been created while the first one has two revisions.
C12_Witness ==
    /\ doclast = DocResponse("create", "ok", 2, V100)
    /\ Len(RevisionsOf(revisions, 1)) = 2
    /\ Len(RevisionsOf(revisions, 2)) = 1
    /\ get_storage_key(2, V100) \in DOMAIN blobs

C14_UpdateRejections ==
    [][/\ (docpc = Idle /\ docpc' = Idle) =>
              LET d == doclast'.document_id
              IN  /\ doclast'.op = "update"
                  /\ d \notin DOMAIN documents => doclast'.res = "DocumentNotFound"
                  /\ (d \in DOMAIN documents /\ Len(RevisionsOf(revisions, d)) = 0)
                         => doclast'.res = "NoRevisionsFound"
                  /\ doclast'.res \in {"DocumentNotFound", "NoRevisionsFound"} =>
                         /\ revisions' = revisions
                         /\ blobs' = blobs
                         /\ documents' = documents
       /\ (docpc = Idle /\ docpc' # Idle /\ docpc'.op = "update") =>
              /\ docpc'.document_id \in DOMAIN documents
              /\ Len(RevisionsOf(revisions, docpc'.document_id)) > 0]_vars

\* An update of a document that has no revision has been rejected while
\* another document has been created and updated.
C14_Witness ==
    /\ doclast = DocResponse("update", "NoRevisionsFound", 1, <<>>)
    /\ 1 \in DOMAIN documents
    /\ Len(RevisionsOf(revisions, 1)) = 0
    /\ Len(RevisionsOf(revisions, 2)) = 2

\* C15: the version of the revision update_document creates is the increment
\* of the version of the document's revision of greatest created_at, by the
\* version type given or, for "auto", by what determine_version_type makes of
\* that revision's content and the new content: "auto" with a section added
\* to a 1.0.0 document gives 1.1.0, "auto" with one section changed by 10
\* characters gives a patch increment.
C15_UpdateVersion ==
    [][(docpc = Idle /\ docpc' # Idle /\ docpc'.op = "update") =>
          LET d == docpc'.document_id
              mine == {revisions[i] : i \in {j \in 1..Len(revisions) :
                                                revisions[j].document_id = d}}
              latest == CHOOSE r \in mine : \A o \in mine : o.created_at <= r.created_at
              old == blobs[latest.storage_key]
              k == IF docpc'.version_type = "auto"
                   THEN determine_version_type(old, docpc'.content)
                   ELSE docpc'.version_type
              was == parse_version(latest.version)
              now == parse_version(docpc'.version)
          IN  /\ \A o \in mine : o = latest \/ o.created_at < latest.created_at
              /\ docpc'.version = increment_version(latest.version, k)
              /\ revisions'[Len(revisions')].version = docpc'.version
              /\ revisions'[Len(revisions')].document_id = d
              /\ k = "major" => now = <<was[1] + 1, 0, 0>>
              /\ k = "minor" => now = <<was[1], was[2] + 1, 0>>
              /\ k = "patch" => now = <<was[1], was[2], was[3] + 1>>
              /\ (docpc'.version_type = "auto" /\ docpc'.content = Added
                     /\ old = BaseContent /\ latest.version = V100)
                    => docpc'.version = <<"1", ".", "1", ".", "0">>
              /\ (docpc'.version_type = "auto" /\ docpc'.content = Small
                     /\ old = BaseContent)
                    => now = <<was[1], was[2], was[3] + 1>>]_vars

\* An "auto" update that adds a section is being made to a document whose
\* latest revision, 1.1.0, is its second.
C15_Witness ==
    /\ docpc # Idle
    /\ docpc.op = "update"
    /\ docpc.version_type = "auto"
    /\ docpc.content = Added
    /\ docpc.version = <<"1", ".", "2", ".", "0">>
    /\ Len(RevisionsOf(revisions, docpc.document_id)) = 3

V110 == <<"1", ".", "1", ".", "0">>
V101 == <<"1", ".", "0", ".", "1">>

\* C30: when a document is created by create_document and then changed by
\* update_document calls made one after the other, with any mix of "major",
\* "minor", "patch" and "auto", a revision created later has the greater
\* version under compare_versions, so the revision get_latest_revision
\* finds, the one of greatest created_at, has the greatest version.
C30_VersionsIncrease ==
    \A d \in DOMAIN documents :
        LET mine == {i \in 1..Len(revisions) : revisions[i].document_id = d}
        IN  /\ \A i, j \in mine :
                   revisions[i].created_at < revisions[j].created_at =>
                       compare_versions(revisions[i].version, revisions[j].version) = 0 - 1
            /\ \A i, j \in mine : i # j => revisions[i].created_at # revisions[j].created_at
            /\ mine # {} =>
                   \A i \in mine :
                       compare_versions(revisions[i].version,
                                        get_latest_revision(revisions, d).version) <= 0

\* A document has gone through a patch, a minor and a major update.
C30_Witness ==
    /\ docpc = Idle
    /\ \E d \in DOMAIN documents :
           LET mine == RevisionsOf(revisions, d)
           IN  /\ Len(mine) = 4
               /\ mine[2].version = V101
               /\ mine[3].version = V110
               /\ mine[4].version = V200
               /\ \A k \in 1..4 : mine[k].storage_key \in DOMAIN blobs

\* C16: two update_document requests for one document that both read the
\* latest revision before either writes can both succeed, each adding a
\* revision whose version is computed from the revision it read: a request
\* that succeeds has added the increment of the revision it read, whether or
\* not that revision is still the latest one when it writes.
C16_StaleLatest ==
    [][\A q \in inflight :
          (q.stage = "flushed" /\ q \notin inflight' /\ doclast'.res = "ok") =>
              LET k == IF q.version_type = "auto"
                       THEN determine_version_type(
                                blobs[q.latest_revision.storage_key], q.content)
                       ELSE q.version_type
              IN  /\ q.version = increment_version(q.latest_revision.version, k)
                  /\ \E i \in 1..Len(revisions') :
                         /\ revisions'[i].document_id = q.document_id
                         /\ revisions'[i].version = q.version
                  /\ blobs'[get_storage_key(q.document_id, q.version)] = q.content]_vars

\* Both requests have returned: document 1 has the committed revisions 1.0.0,
\* 1.1.0 and, created last, 1.0.1, the last two both computed from 1.0.0.
C16_Witness ==
    /\ inflight = {}
    /\ docpc = Idle
    /\ doclast = DocResponse("update", "ok", 1, V101)
    /\ Len(revisions) = 3
    /\ revisions[1].version = V100
    /\ revisions[2].version = V110
    /\ revisions[3].version = V101
    /\ \A i \in 1..3 : revisions[i].document_id = 1
                        /\ revisions[i].storage_key \in DOMAIN blobs

\* C17: in every state, also while and after update_document requests for
\* one document interleave, no two revision rows have the same document_id
\* and version.
C17_RevisionVersionUnique ==
    \A i \in 1..Len(revisions) : \A j \in 1..Len(revisions) :
        (revisions[i].document_id = revisions[j].document_id
           /\ revisions[i].version = revisions[j].version) => i = j

\* Of two requests that both computed 1.1.0 from 1.0.0 one has committed its
\* revision and the other has been rejected at its flush.
C17_Witness ==
    /\ doclast = DocResponse("update", "IntegrityError", 1, V110)
    /\ inflight = {}
    /\ Len(revisions) = 2
    /\ revisions[1].version = V100
    /\ revisions[2].version = V110

\* C18: whatever create_document and update_document requests run, one after
\* the other or interleaved, a save never goes to the storage key of a
\* revision row that is committed (the row the saving request has itself
\* just flushed is not), so the blob of a committed revision is never
\* overwritten.
C18_BlobWrittenOnce ==
    [][blobs' # blobs =>
          /\ \A i \in 1..Len(CommittedRevisions) :
                 LET k == CommittedRevisions[i].storage_key
                 IN  /\ k \in DOMAIN blobs
                     /\ k \in DOMAIN blobs'
                     /\ blobs'[k] = blobs[k]
          /\ \A k \in DOMAIN blobs : k \in DOMAIN blobs' /\ blobs'[k] = blobs[k]
          /\ Cardinality(DOMAIN blobs' \ DOMAIN blobs) = 1]_vars

\* Two requests with different contents both computed 1.1.0 from 1.0.0: the
\* one that added a section has committed, the other has been rejected, and
\* the blob of 1.1.0 is the content with the added section.
C18_Witness ==
    /\ doclast = DocResponse("update", "IntegrityError", 1, V110)
    /\ get_storage_key(1, V110) \in DOMAIN blobs
    /\ blobs[get_storage_key(1, V110)] = Added
    /\ blobs[get_storage_key(1, V100)] = BaseContent

\* C19: after any sequence of link_node_document and unlink_node_document
\* requests no two links have the same node and document, and a
\* link_node_document request for a pair that is linked already adds no row
\* and sets the link's relation_type to the one requested and, when the
\* request has an order position, its order_position to that.
C19_LinkIsUpsert ==
    [][/\ \A k \in DOMAIN links' : \A l \in DOMAIN links' :
              (links'[k].node_id = links'[l].node_id
                 /\ links'[k].document_id = links'[l].document_id) => k = l
       /\ (doclast'.op = "link" /\ doclast'.res = "updated"
             /\ UNCHANGED <<roadmaps, nodes, last, documents, revisions, blobs, docpc>>) =>
              LET pair == LinksOf(links, doclast'.node_id, doclast'.document_id)
              IN  /\ DOMAIN links' = DOMAIN links
                  /\ \A l \in DOMAIN links \ pair : links'[l] = links[l]
                  /\ \A l \in pair :
                         /\ links'[l].relation_type = doclast'.relation_type
                         /\ links'[l].order_position =
                                IF doclast'.order_position = <<>>
                                THEN links[l].order_position
                                ELSE doclast'.order_position[1]]_vars

\* C21: unlink_node_document returns True exactly when the pair had a link,
\* and then that link and no other is removed; otherwise it returns False
\* and changes nothing.
C21_UnlinkResult ==
    [][(doclast'.op = "unlink"
          /\ UNCHANGED <<roadmaps, nodes, last, documents, revisions, blobs, docpc>>) =>
          LET pair == {l \in DOMAIN links :
                          /\ links[l].node_id = doclast'.node_id
                          /\ links[l].document_id = doclast'.document_id}
          IN  /\ doclast'.res = (pair # {})
              /\ DOMAIN links' = DOMAIN links \ pair
              /\ \A l \in DOMAIN links' : links'[l] = links[l]
              /\ doclast'.res = FALSE => links' = links]_vars

\* Of the two links of a node one has been removed and the other is there.
C21_Witness ==
    /\ doclast.op = "unlink"
    /\ doclast.res = TRUE
    /\ Cardinality(DOMAIN links) = 1
    /\ \A l \in DOMAIN links :
           /\ links[l].node_id = doclast.node_id
           /\ links[l].document_id # doclast.document_id

\* C20: a link that link_node_document creates for a request without an
\* order position gets 100 when the node has no link yet, and otherwise 100
\* more than the greatest order position among the node's links, which is
\* more than every one of them.
C20_DefaultOrderPosition ==
    [][(links' # links /\ doclast'.op = "link" /\ doclast'.res = "created"
          /\ doclast'.order_position = <<>>) =>
          LET n == doclast'.node_id
              created == DOMAIN links' \ DOMAIN links
              existing == {links[k].order_position :
                               k \in {j \in DOMAIN links : links[j].node_id = n}}
          IN  /\ Cardinality(created) = 1
              /\ \A l \in created :
                     /\ links'[l].node_id = n
                     /\ links'[l].document_id = doclast'.document_id
                     /\ existing = {} => links'[l].order_position = 100
                     /\ existing # {} =>
                            \E m \in existing :
                                /\ \A y \in existing : y <= m
                                /\ links'[l].order_position = m + 100
                     /\ \A y \in existing : y < links'[l].order_position]_vars

\* A node linked at position 250 has got a second link, without a position
\* in the request, at 350.
C20_Witness ==
    /\ doclast.op = "link" /\ doclast.res = "created" /\ doclast.order_position = <<>>
    /\ \E l \in LinksOf(links, doclast.node_id, doclast.document_id) :
           links[l].order_position = 350
    /\ \E k \in DOMAIN links :
           links[k].node_id = doclast.node_id /\ links[k].order_position = 250

(***************************************************************************)
(* Properties of the roadmap service.                                      *)
(***************************************************************************)
LatestOf(t) == {r \in DOMAIN roadmaps : roadmaps[r].theme_id = t /\ roadmaps[r].is_latest}
RoadmapsOf(t) == {r \in DOMAIN roadmaps : roadmaps[r].theme_id = t}

\* C3: every theme that has a roadmap has exactly one roadmap with
\* is_latest = true, after any sequence of completed requests.
C3_ExactlyOneLatestPerTheme ==
    \A t \in Themes : RoadmapsOf(t) # {} => Cardinality(LatestOf(t)) = 1

\* C4: a roadmap that is published stays published through every request.
C4_PublishIsOneWay ==
    [][\A r \in DOMAIN roadmaps :
          roadmaps[r].is_published =>
              r \in DOMAIN roadmaps' /\ roadmaps'[r].is_published]_vars

C4_Witness ==
    /\ last.op = "clone"
    /\ last.res = "ok"
    /\ roadmaps[last.id].is_published
    /\ roadmaps[last.id].theme_id = "t2"
    /\ roadmaps[last.id].title = "B"

\* C5: every published roadmap has a node and, with two or more nodes, an edge.
C5_PublishedIsValidated ==
    \A r \in DOMAIN roadmaps :
        roadmaps[r].is_published =>
            /\ Cardinality(NodesOf(nodes, r)) >= 1
            /\ Cardinality(NodesOf(nodes, r)) >= 2 => Cardinality(EdgesOf(edges, r)) >= 1

\* C6: publish answers RoadmapNotFound, AlreadyPublished, EmptyRoadmap or
\* DisconnectedRoadmap in exactly the stated cases and then changes nothing;
\* in every other case it succeeds and sets is_published and published_at.
C6_PublishOutcome ==
    [][last'.op = "publish" =>
          LET r == last'.id
              res == last'.res
              n == Cardinality(NodesOf(nodes, r))
              e == Cardinality(EdgesOf(edges, r))
          IN  /\ res = "RoadmapNotFound" <=> r \notin DOMAIN roadmaps
              /\ res = "AlreadyPublished" <=>
                     r \in DOMAIN roadmaps /\ roadmaps[r].is_published
              /\ res = "EmptyRoadmap" <=>
                     r \in DOMAIN roadmaps /\ ~roadmaps[r].is_published /\ n = 0
              /\ res = "DisconnectedRoadmap" <=>
                     r \in DOMAIN roadmaps /\ ~roadmaps[r].is_published
                         /\ n >= 2 /\ e = 0
              /\ res \in {"RoadmapNotFound", "AlreadyPublished", "EmptyRoadmap",
                          "DisconnectedRoadmap", "ok"}
              /\ res = "ok" =>
                     /\ roadmaps'[r].is_published
                     /\ roadmaps'[r].published_at = "now"
                     /\ roadmaps' = [roadmaps EXCEPT ![r].is_published = TRUE,
                                                     ![r].published_at = "now"]
              /\ res # "ok" => roadmaps' = roadmaps
              /\ UNCHANGED <<nodes, edges>>]_vars

C6_Witness ==
    /\ last.op = "publish"
    /\ last.res = "ok"
    /\ Cardinality(NodesOf(nodes, last.id)) = 1
    /\ EdgesOf(edges, last.id) = {}

\* C8: cloneForNewVersion answers RoadmapNotFound, SourceNotPublished,
\* InvalidVersion (a label that is no semantic version) or VersionNotNewer
\* (a label not above the source's version) in the stated cases, and then
\* no row is created and no is_latest flag changes.
C8_CloneRejections ==
    [][last'.op = "clone" =>
          LET r == last'.id
              v == last'.label
              res == last'.res
          IN  /\ r \notin DOMAIN roadmaps => res = "RoadmapNotFound"
              /\ r \in DOMAIN roadmaps /\ ~roadmaps[r].is_published =>
                     res = "SourceNotPublished"
              /\ r \in DOMAIN roadmaps /\ roadmaps[r].is_published
                     /\ ~is_valid_version(v) => res = "InvalidVersion"
              /\ (/\ r \in DOMAIN roadmaps
                  /\ roadmaps[r].is_published
                  /\ is_valid_version(v)
                  /\ is_valid_version(roadmaps[r].version)
                  /\ compare_versions(v, roadmaps[r].version) <= 0) =>
                     res = "VersionNotNewer"
              /\ res \in {"RoadmapNotFound", "SourceNotPublished",
                          "InvalidVersion", "VersionNotNewer"} =>
                     UNCHANGED <<roadmaps, nodes, edges>>]_vars

\* C9: after a successful cloneForNewVersion the source is demoted and still
\* published, and the new roadmap carries the requested version and the
\* source's theme, title and description, is a draft open to node edits, and
\* is the latest.
C9_CloneResult ==
    (last.op = "clone" /\ last.res = "ok") =>
        /\ last.id \in DOMAIN roadmaps
        /\ last.new \in DOMAIN roadmaps
        /\ last.new # last.id
        /\ ~roadmaps[last.id].is_latest
        /\ roadmaps[last.id].is_published
        /\ roadmaps[last.new].version = last.label
        /\ roadmaps[last.new].theme_id = roadmaps[last.id].theme_id
        /\ roadmaps[last.new].title = roadmaps[last.id].title
        /\ roadmaps[last.new].description = roadmaps[last.id].description
        /\ ~roadmaps[last.new].is_published
        /\ roadmaps[last.new].is_latest
        /\ \A h \in NodeHandles :
               create_node_check(roadmaps, nodes, last.new, h)
                   \in {"ok", "DuplicateHandle"}

C9_Witness ==
    /\ last.op = "clone"
    /\ last.res = "ok"
    /\ roadmaps[last.new].theme_id = "t2"
    /\ roadmaps[last.new].title = "B"
    /\ roadmaps[last.new].version = V200

\* C10: the endpoints of every edge are existing nodes of the edge's roadmap.
C10_EdgeEndpointsInRoadmap ==
    \A e \in DOMAIN edges :
        /\ EndpointInRoadmap(nodes, edges[e].source_node_id, edges[e].roadmap_id)
        /\ EndpointInRoadmap(nodes, edges[e].target_node_id, edges[e].roadmap_id)

C10_Witness ==
    /\ last.op = "clone"
    /\ last.res = "ok"
    /\ EdgesOf(edges, last.new) # {}
    /\ EdgesOf(edges, last.id) # {}

\* C11: a successful cloneForNewVersion makes a deep copy: one new node per
\* source node with the same handle, type, title, description, position,
\* metadata and is_required; one new edge per source edge with the same
\* handle, edge_type, source_handle, target_handle and metadata, between the
\* copies of its endpoints; no row is shared and the source's rows are as
\* they were.
C11_CloneIsDeepCopy ==
    [][(last'.op = "clone" /\ last'.res = "ok") =>
          LET r == last'.id
              new == last'.new
              old_nodes == NodesOf(nodes, r)
              new_nodes == NodesOf(nodes', new)
              old_edges == EdgesOf(edges, r)
              new_edges == EdgesOf(edges', new)
          IN  /\ \A n \in DOMAIN nodes : n \in DOMAIN nodes' /\ nodes'[n] = nodes[n]
              /\ \A e \in DOMAIN edges : e \in DOMAIN edges' /\ edges'[e] = edges[e]
              /\ new_nodes \cap DOMAIN nodes = {}
              /\ new_edges \cap DOMAIN edges = {}
              /\ \E m \in [old_nodes -> new_nodes] :
                     /\ \A n \in new_nodes :
                            Cardinality({o \in old_nodes : m[o] = n}) = 1
                     /\ \A o \in old_nodes :
                            nodes'[m[o]] = [nodes[o] EXCEPT !.roadmap_id = new]
                     /\ Cardinality(new_edges) = Cardinality(old_edges)
                     /\ \A o \in old_edges :
                            Cardinality({e \in new_edges :
                                edges'[e] = [edges[o] EXCEPT
                                    !.roadmap_id = new,
                                    !.source_node_id = m[edges[o].source_node_id],
                                    !.target_node_id = m[edges[o].target_node_id]]}) = 1]_vars

\* C2: when cloneForNewVersion is aborted after its validation, the tables
\* hold neither a demoted source without its new latest roadmap nor a new
\* roadmap with its nodes but without its edges.
C2_CloneIsAtomic ==
    (last.op = "clone" /\ last.res = "aborted") =>
        \/ roadmaps[last.id].is_latest
        \/ \E n \in DOMAIN roadmaps :
               /\ roadmaps[n].theme_id = roadmaps[last.id].theme_id
               /\ roadmaps[n].version = last.label
               /\ roadmaps[n].is_latest
               /\ Cardinality(EdgesOf(edges, n)) = Cardinality(EdgesOf(edges, last.id))

\* C7: once a roadmap is published, its nodes, its edges and its theme_id
\* stay as they are, under any sequence or interleaving of requests.
C7_PublishedIsFrozen ==
    [][\A r \in DOMAIN roadmaps :
          roadmaps[r].is_published =>
              /\ roadmaps'[r].theme_id = roadmaps[r].theme_id
              /\ NodesOf(nodes', r) = NodesOf(nodes, r)
              /\ EdgesOf(edges', r) = EdgesOf(edges, r)
              /\ \A n \in NodesOf(nodes, r) : nodes'[n] = nodes[n]
              /\ \A e \in EdgesOf(edges, r) : edges'[e] = edges[e]]_vars

(***************************************************************************)
(* Properties of the document service.                                     *)
(***************************************************************************)
\* C1: the blob of a revision is saved before its row is written: in no
\* state, a failed save included, is there a document_revisions row whose
\* storage_key has no blob in the content store.
C1_BlobBeforeRevisionRow ==
    \A i \in 1..Len(revisions) : revisions[i].storage_key \in DOMAIN blobs

====
